---------------------------- MODULE Spec2Model ----------------------------
(***************************************************************************)
(* AutoGuardRails: the execution and lifecycle state machine.              *)
(*                                                                         *)
(* The model covers the cost-event handler (handlers/budgets_event.py),    *)
(* the approval webhook (handlers/approval_webhook.py), the TTL sweep      *)
(* (handlers/ttl_cleanup.py), the IAM executor (executor_iam.py) and the   *)
(* audit ledger (audit_store.py).  IAM is a set of managed policies and a  *)
(* map from principals to the policies attached to them; the ledger is a   *)
(* map from execution ids to stored items.                                 *)
(***************************************************************************)
EXTENDS Integers, Sequences, FiniteSets, TLC

(***************************************************************************)
(* Bounds of the model.                                                    *)
(***************************************************************************)
MaxExecs == 2        \* ledger records created by event handling
MaxApprovals == 2    \* handle_approval invocations
MaxSweeps == 2       \* cleanup_expired_executions invocations
MaxTime == 2         \* hours the wall clock runs
MaxCalls == 2        \* direct calls of rollback_execution on one execution
MaxBatch == 2        \* largest batch_size a cleanup handler is built with

(***************************************************************************)
(* Program constants.                                                      *)
(***************************************************************************)
approval_timeout_hours == 1
MinutesPerHour == 60  \* the wall clock counts minutes

NoTime == -1         \* a datetime field that is None
NoId == 0            \* no execution

(***************************************************************************)
(* Principals.  An ARN is kept as its ':'-separated parts, the resource    *)
(* part as its '/'-separated segments.                                     *)
(***************************************************************************)
RoleA == <<"arn", "aws", "iam", "", "123456789012", <<"role", "ci-a">>>>
RoleB == <<"arn", "aws", "iam", "", "123456789012", <<"role", "ci-b">>>>

PrincipalKeys == {<<"role", "ci-a">>, <<"role", "ci-b">>}

\* executor_iam.py _parse_principal_arn
ParsePrincipalArn(arn) ==
    IF Len(arn) # 6 \/ arn[3] # "iam"
    THEN [ok |-> FALSE, type |-> "", name |-> "", error |-> "Invalid IAM ARN"]
    ELSE IF Len(arn[6]) < 2
    THEN [ok |-> FALSE, type |-> "", name |-> "", error |-> "Invalid IAM resource"]
    ELSE IF arn[6][1] \notin {"role", "user"}
    THEN [ok |-> FALSE, type |-> "", name |-> "",
          error |-> "Unsupported principal type"]
    ELSE [ok |-> TRUE, type |-> arn[6][1], name |-> arn[6][2], error |-> ""]

(***************************************************************************)
(* The diff of an execution: every key the code reads or writes, an absent *)
(* key holding the empty value of its type.                                *)
(***************************************************************************)
NoPolicy == <<>>

EmptyDiff ==
    [dry_run |-> FALSE, would_deny |-> <<>>, policy_document |-> <<>>,
     no_changes |-> FALSE, policy_arn |-> NoPolicy, principal_type |-> "",
     principal_name |-> "", has_before |-> FALSE, before |-> {},
     has_after |-> FALSE, after |-> {}, error |-> "", rollback_error |-> ""]

\* executor_iam.py:195-199: the managed policy's name, guardrails-deny-<policy_id>-
\* <hash of the deny list as given>; the hash is taken as collision free.
PolicyName(policy_id, deny_actions) == <<policy_id, deny_actions>>

(***************************************************************************)
(* IAMExecutor._attach_deny_policy.  fault names the IAM call that raises: *)
(* "create" (get_policy/create_policy), "attach" (the listing before, or   *)
(* the attach call), "list_after" (the listing after the attach), "none".  *)
(***************************************************************************)
Faults == {"none", "create", "attach", "list_after"}

AttachDenyPolicy(principal_arn, deny_actions, policy_id, fault, pols, att) ==
    LET parsed == ParsePrincipalArn(principal_arn)
        name == PolicyName(policy_id, deny_actions)
        key == <<parsed.type, parsed.name>>
        pols1 == pols \cup {name}
        att1 == [att EXCEPT ![key] = @ \cup {name}]
        Raise(msg, p, a) ==
            [ok |-> FALSE, error |-> msg, diff |-> EmptyDiff, pols |-> p, att |-> a]
    IN  IF ~parsed.ok THEN Raise(parsed.error, pols, att)
        ELSE IF fault = "create" THEN Raise("ClientError", pols, att)
        ELSE IF fault = "attach" THEN Raise("ClientError", pols1, att)
        ELSE IF fault = "list_after" THEN Raise("ClientError", pols1, att1)
        ELSE [ok |-> TRUE, error |-> "",
              diff |-> [EmptyDiff EXCEPT
                          !.policy_arn = name,
                          !.principal_type = parsed.type,
                          !.principal_name = parsed.name,
                          !.has_before = TRUE, !.before = att[key],
                          !.has_after = TRUE, !.after = att1[key]],
              pols |-> pols1, att |-> att1]

(***************************************************************************)
(* IAMExecutor._execute_single_action.  The result carries the execution,  *)
(* whether the call raised, and the IAM state it leaves.                   *)
(***************************************************************************)
NewExecution(id, policy_id, event_id, executed_by, action, target) ==
    [execution_id |-> id, policy_id |-> policy_id, event_id |-> event_id,
     status |-> "planned", executed_at |-> NoTime, executed_by |-> executed_by,
     action |-> action.type, target |-> target, diff |-> EmptyDiff,
     ttl_expires_at |-> NoTime, rolled_back_at |-> NoTime]

\* A simulate mode that stamps the expiry as the real mode does.
ExecuteSingleActionStampsTtl(action, principal_arn, policy_id, event_id, executed_by, ttl_minutes, dry_run, fault, t, id, pols, att) ==
    LET execution ==
            NewExecution(id, policy_id, event_id, executed_by, action, principal_arn)
    IN  IF action.type = "notify_only"
        THEN [raised |-> FALSE, pols |-> pols, att |-> att,
              execution |-> [execution EXCEPT
                               !.status = "executed", !.executed_at = t,
                               !.diff = [EmptyDiff EXCEPT !.no_changes = TRUE]]]
        ELSE IF action.type = "attach_deny_policy"
        THEN IF action.deny = <<>>
             THEN [raised |-> TRUE, pols |-> pols, att |-> att,
                   execution |-> execution]
             ELSE IF dry_run
             THEN [raised |-> FALSE, pols |-> pols, att |-> att,
                   execution |-> [execution EXCEPT
                                    !.status = "executed", !.executed_at = t,
                                    !.ttl_expires_at =
                                        IF ttl_minutes > 0 THEN t + ttl_minutes
                                        ELSE NoTime,
                                    !.diff = [EmptyDiff EXCEPT
                                                !.dry_run = TRUE,
                                                !.would_deny = action.deny]]]
             ELSE LET result == AttachDenyPolicy(principal_arn, action.deny,
                                                 policy_id, fault, pols, att)
                  IN  IF result.ok
                      THEN [raised |-> FALSE, pols |-> result.pols,
                            att |-> result.att,
                            execution |-> [execution EXCEPT
                                             !.status = "executed",
                                             !.executed_at = t,
                                             !.diff = result.diff,
                                             !.ttl_expires_at =
                                                 IF ttl_minutes > 0
                                                 THEN t + ttl_minutes
                                                 ELSE NoTime]]
                      ELSE [raised |-> FALSE, pols |-> result.pols,
                            att |-> result.att,
                            execution |-> [execution EXCEPT
                                             !.status = "failed",
                                             !.diff = [EmptyDiff EXCEPT
                                                         !.error = result.error]]]
        ELSE [raised |-> TRUE, pols |-> pols, att |-> att, execution |-> execution]

ExecuteSingleAction(action, principal_arn, policy_id, event_id, executed_by, ttl_minutes, dry_run, fault, t, id, pols, att) ==
    LET execution ==
            NewExecution(id, policy_id, event_id, executed_by, action, principal_arn)
    IN  IF action.type = "notify_only"
        THEN [raised |-> FALSE, pols |-> pols, att |-> att,
              execution |-> [execution EXCEPT
                               !.status = "executed", !.executed_at = t,
                               !.diff = [EmptyDiff EXCEPT !.no_changes = TRUE]]]
        ELSE IF action.type = "attach_deny_policy"
        THEN IF action.deny = <<>>
             THEN [raised |-> TRUE, pols |-> pols, att |-> att,
                   execution |-> execution]
             ELSE IF dry_run
             THEN [raised |-> FALSE, pols |-> pols, att |-> att,
                   execution |-> [execution EXCEPT
                                    !.status = "executed", !.executed_at = t,
                                    !.diff = [EmptyDiff EXCEPT
                                                !.dry_run = TRUE,
                                                !.would_deny = action.deny]]]
             ELSE LET result == AttachDenyPolicy(principal_arn, action.deny,
                                                 policy_id, fault, pols, att)
                  IN  IF result.ok
                      THEN [raised |-> FALSE, pols |-> result.pols,
                            att |-> result.att,
                            execution |-> [execution EXCEPT
                                             !.status = "executed",
                                             !.executed_at = t,
                                             !.diff = result.diff,
                                             !.ttl_expires_at =
                                                 IF ttl_minutes > 0
                                                 THEN t + ttl_minutes
                                                 ELSE NoTime]]
                      ELSE [raised |-> FALSE, pols |-> result.pols,
                            att |-> result.att,
                            execution |-> [execution EXCEPT
                                             !.status = "failed",
                                             !.diff = [EmptyDiff EXCEPT
                                                         !.error = result.error]]]
        ELSE [raised |-> TRUE, pols |-> pols, att |-> att, execution |-> execution]

(***************************************************************************)
(* IAMExecutor.execute_action_plan: one execution per (action, target)     *)
(* pair, actions in plan order and targets in plan order within an action. *)
(* faults gives the IAM fault met by each pair; ids are fresh (uuid4).     *)
(***************************************************************************)
\* The pairs target by target, the actions in plan order within a target.
PlanPairsByTarget(plan) ==
    [k \in 1..(Len(plan.actions) * Len(plan.target_principals)) |->
        [action |-> plan.actions[((k - 1) % Len(plan.actions)) + 1],
         target |-> plan.target_principals[((k - 1) \div Len(plan.actions)) + 1]]]

PlanPairs(plan) ==
    [k \in 1..(Len(plan.actions) * Len(plan.target_principals)) |->
        [action |-> plan.actions[((k - 1) \div Len(plan.target_principals)) + 1],
         target |-> plan.target_principals[((k - 1) % Len(plan.target_principals)) + 1]]]

\* A loop that lets the failure of one pair end the whole call.
RECURSIVE ExecutePairsStopOnFailure(_, _, _, _, _, _, _, _, _, _, _)
ExecutePairsStopOnFailure(pairs, k, plan, event_id, executed_by, dry_run, faults, t, firstId, pols, att) ==
    IF k > Len(pairs)
    THEN [raised |-> FALSE, executions |-> <<>>, pols |-> pols, att |-> att]
    ELSE LET r == ExecuteSingleAction(pairs[k].action, pairs[k].target,
                                      plan.matched_policy_id, event_id,
                                      executed_by, plan.ttl_minutes, dry_run,
                                      faults[k], t, firstId + k - 1, pols, att)
         IN  IF r.raised \/ r.execution.status = "failed"
             THEN [raised |-> TRUE, executions |-> <<>>, pols |-> r.pols,
                   att |-> r.att]
             ELSE LET rest == ExecutePairsStopOnFailure(pairs, k + 1, plan,
                                  event_id, executed_by, dry_run, faults, t,
                                  firstId, r.pols, r.att)
                  IN  [raised |-> rest.raised,
                       executions |-> IF rest.raised THEN <<>>
                                      ELSE <<r.execution>> \o rest.executions,
                       pols |-> rest.pols, att |-> rest.att]

RECURSIVE ExecutePairs(_, _, _, _, _, _, _, _, _, _, _)
ExecutePairs(pairs, k, plan, event_id, executed_by, dry_run, faults, t, firstId, pols, att) ==
    IF k > Len(pairs)
    THEN [raised |-> FALSE, executions |-> <<>>, pols |-> pols, att |-> att]
    ELSE LET r == ExecuteSingleAction(pairs[k].action, pairs[k].target,
                                      plan.matched_policy_id, event_id,
                                      executed_by, plan.ttl_minutes, dry_run,
                                      faults[k], t, firstId + k - 1, pols, att)
         IN  IF r.raised
             THEN [raised |-> TRUE, executions |-> <<>>, pols |-> r.pols,
                   att |-> r.att]
             ELSE LET rest == ExecutePairs(pairs, k + 1, plan, event_id,
                                           executed_by, dry_run, faults, t,
                                           firstId, r.pols, r.att)
                  IN  [raised |-> rest.raised,
                       executions |-> IF rest.raised THEN <<>>
                                      ELSE <<r.execution>> \o rest.executions,
                       pols |-> rest.pols, att |-> rest.att]

\* The loop without the check of the plan before it.
ExecuteActionPlanUnchecked(plan, event_id, executed_by, dry_run, faults, t, firstId, pols, att) ==
    ExecutePairs(PlanPairs(plan), 1, plan, event_id, executed_by, dry_run,
                 faults, t, firstId, pols, att)

ExecuteActionPlan(plan, event_id, executed_by, dry_run, faults, t, firstId, pols, att) ==
    IF ~plan.matched
    THEN [raised |-> TRUE, executions |-> <<>>, pols |-> pols, att |-> att]
    ELSE IF plan.matched_policy_id = "" \/ plan.actions = <<>>
    THEN [raised |-> TRUE, executions |-> <<>>, pols |-> pols, att |-> att]
    ELSE ExecutePairs(PlanPairs(plan), 1, plan, event_id, executed_by, dry_run,
                      faults, t, firstId, pols, att)

(***************************************************************************)
(* IAMExecutor._rollback_attach_deny_policy and rollback_execution.        *)
(* detachFails: the detach call raises (IAM answers NoSuchEntity when the  *)
(* policy is not attached to the principal, and may fail otherwise);       *)
(* deleteFails: list_entities_for_policy or delete_policy raises, which    *)
(* the code logs and swallows.                                             *)
(***************************************************************************)
AttachedNowhere(name, att) == 0

AttachedCount(name, att) == Cardinality({k \in DOMAIN att : name \in att[k]})

\* A rollback that takes a diff without the fields as nothing to undo.
RollbackAttachDenyPolicyLenient(execution, detachFails, deleteFails, pols, att) ==
    LET diff == execution.diff
        key == <<diff.principal_type, diff.principal_name>>
    IN  IF diff.dry_run \/ diff.policy_arn = NoPolicy
           \/ diff.principal_type = "" \/ diff.principal_name = ""
        THEN [raised |-> FALSE, detached |-> FALSE, pols |-> pols, att |-> att]
        ELSE IF detachFails \/ diff.policy_arn \notin att[key]
        THEN [raised |-> TRUE, detached |-> FALSE, pols |-> pols, att |-> att]
        ELSE LET att1 == [att EXCEPT ![key] = @ \ {diff.policy_arn}]
             IN  [raised |-> FALSE, detached |-> TRUE, att |-> att1,
                  pols |-> IF ~deleteFails /\ AttachedCount(diff.policy_arn, att1) = 0
                           THEN pols \ {diff.policy_arn}
                           ELSE pols]

RollbackAttachDenyPolicy(execution, detachFails, deleteFails, pols, att) ==
    LET diff == execution.diff
        key == <<diff.principal_type, diff.principal_name>>
    IN  IF diff.dry_run
        THEN [raised |-> FALSE, detached |-> FALSE, pols |-> pols, att |-> att]
        ELSE IF diff.policy_arn = NoPolicy \/ diff.principal_type = ""
                \/ diff.principal_name = ""
        THEN [raised |-> TRUE, detached |-> FALSE, pols |-> pols, att |-> att]
        ELSE IF detachFails \/ diff.policy_arn \notin att[key]
        THEN [raised |-> TRUE, detached |-> FALSE, pols |-> pols, att |-> att]
        ELSE LET att1 == [att EXCEPT ![key] = @ \ {diff.policy_arn}]
             IN  [raised |-> FALSE, detached |-> TRUE, att |-> att1,
                  pols |-> IF ~deleteFails /\ AttachedCount(diff.policy_arn, att1) = 0
                           THEN pols \ {diff.policy_arn}
                           ELSE pols]

RollbackExecutionAnyStatus(execution, dry_run, detachFails, deleteFails, t, pols, att) ==
    IF dry_run
    THEN [success |-> TRUE, detached |-> FALSE, execution |-> execution,
          pols |-> pols, att |-> att]
    ELSE IF execution.action = "attach_deny_policy"
    THEN LET r == RollbackAttachDenyPolicy(execution, detachFails, deleteFails,
                                           pols, att)
         IN  IF r.raised
             THEN [success |-> FALSE, detached |-> FALSE, execution |-> execution,
                   pols |-> r.pols, att |-> r.att]
             ELSE [success |-> TRUE, detached |-> r.detached,
                   execution |-> [execution EXCEPT !.status = "rolled_back",
                                                   !.rolled_back_at = t],
                   pols |-> r.pols, att |-> r.att]
    ELSE IF execution.action = "notify_only"
    THEN [success |-> TRUE, detached |-> FALSE,
          execution |-> [execution EXCEPT !.status = "rolled_back",
                                          !.rolled_back_at = t],
          pols |-> pols, att |-> att]
    ELSE [success |-> FALSE, detached |-> FALSE, execution |-> execution,
          pols |-> pols, att |-> att]

\* The result: what rollback_execution returns, the execution as the call
\* leaves it (the caller's object is mutated in place), and the IAM state.
RollbackExecution(execution, dry_run, detachFails, deleteFails, t, pols, att) ==
    IF execution.status # "executed"
    THEN [success |-> FALSE, detached |-> FALSE, execution |-> execution,
          pols |-> pols, att |-> att]
    ELSE IF dry_run
    THEN [success |-> TRUE, detached |-> FALSE, execution |-> execution,
          pols |-> pols, att |-> att]
    ELSE IF execution.action = "attach_deny_policy"
    THEN LET r == RollbackAttachDenyPolicy(execution, detachFails, deleteFails,
                                           pols, att)
         IN  IF r.raised
             THEN [success |-> FALSE, detached |-> FALSE, execution |-> execution,
                   pols |-> r.pols, att |-> r.att]
             ELSE [success |-> TRUE, detached |-> r.detached,
                   execution |-> [execution EXCEPT !.status = "rolled_back",
                                                   !.rolled_back_at = t],
                   pols |-> r.pols, att |-> r.att]
    ELSE IF execution.action = "notify_only"
    THEN [success |-> TRUE, detached |-> FALSE,
          execution |-> [execution EXCEPT !.status = "rolled_back",
                                          !.rolled_back_at = t],
          pols |-> pols, att |-> att]
    ELSE [success |-> FALSE, detached |-> FALSE, execution |-> execution,
          pols |-> pols, att |-> att]

(***************************************************************************)
(* The policy engine (policy_engine.py).  An optional list that is None is *)
(* a record with given = FALSE; a detail the event lacks is "".  The wall  *)
(* clock is [day, hour, minute, second].                                   *)
(***************************************************************************)
NoFilter == [given |-> FALSE, values |-> {}]
Filter(S) == [given |-> TRUE, values |-> S]
NoExceptions == [accounts |-> {}, principals |-> <<>>, time_windows |-> <<>>]

\* PolicyEngine._principal_matches_allowlist; strings are sequences of characters.
IsPrefix(p, s) == Len(p) <= Len(s) /\ SubSeq(s, 1, Len(p)) = p

PrincipalMatchesAllowlist(principal_arn, allowlist) ==
    \E i \in 1..Len(allowlist) :
        LET pattern == allowlist[i]
        IN  IF Len(pattern) > 0 /\ pattern[Len(pattern)] = "*"
            THEN IsPrefix(SubSeq(pattern, 1, Len(pattern) - 1), principal_arn)
            ELSE principal_arn = pattern

\* PolicyEngine._in_exempted_time_window
TimeLE(h1, m1, s1, h2, m2, s2) ==
    \/ h1 < h2
    \/ h1 = h2 /\ m1 < m2
    \/ h1 = h2 /\ m1 = m2 /\ s1 <= s2

InExemptedTimeWindow(time_windows, wall) ==
    \E i \in 1..Len(time_windows) :
        LET window == time_windows[i]
        IN  /\ wall.day \in window.days
            /\ TimeLE(window.start[1], window.start[2], 0,
                      wall.hour, wall.minute, wall.second)
            /\ TimeLE(wall.hour, wall.minute, wall.second,
                      window.end[1], window.end[2], 0)

\* PolicyEngine._is_exempted
IsExempted(event, exceptions, wall) ==
    \/ event.account_id \in exceptions.accounts
    \/ /\ exceptions.principals # <<>>
       /\ event.details.principal_arn # <<>>
       /\ PrincipalMatchesAllowlist(event.details.principal_arn,
                                    exceptions.principals)
    \/ /\ exceptions.time_windows # <<>>
       /\ InExemptedTimeWindow(exceptions.time_windows, wall)

\* The amount taken to lie strictly between the minimum and the maximum.
MatchEventExclusiveBounds(event, policy, wall) ==
    /\ event.source \in policy.match.source
    /\ event.account_id \in policy.match.account_ids
    /\ event.amount > policy.match.min_amount_usd
    /\ policy.match.max_amount_usd.given
          => event.amount < policy.match.max_amount_usd.value
    /\ policy.match.services.given
          => event.details.service \in policy.match.services.values
    /\ policy.match.regions.given
          => event.details.region \in policy.match.regions.values
    /\ ~IsExempted(event, policy.exceptions, wall)

\* The match conditions alone, the exception rules left out.
MatchEventIgnoringExceptions(event, policy, wall) ==
    /\ event.source \in policy.match.source
    /\ event.account_id \in policy.match.account_ids
    /\ ~(event.amount < policy.match.min_amount_usd)
    /\ policy.match.max_amount_usd.given
          => ~(event.amount > policy.match.max_amount_usd.value)
    /\ policy.match.services.given
          => event.details.service \in policy.match.services.values
    /\ policy.match.regions.given
          => event.details.region \in policy.match.regions.values

\* PolicyEngine.match_event
MatchEvent(event, policy, wall) ==
    /\ event.source \in policy.match.source
    /\ event.account_id \in policy.match.account_ids
    /\ ~(event.amount < policy.match.min_amount_usd)
    /\ policy.match.max_amount_usd.given
          => ~(event.amount > policy.match.max_amount_usd.value)
    /\ policy.match.services.given
          => event.details.service \in policy.match.services.values
    /\ policy.match.regions.given
          => event.details.region \in policy.match.regions.values
    /\ ~IsExempted(event, policy.exceptions, wall)

UnmatchedPlan ==
    [matched |-> FALSE, matched_policy_id |-> "", mode |-> "", actions |-> <<>>,
     ttl_minutes |-> 0, target_principals |-> <<>>]

\* PolicyEngine._build_action_plan
BuildActionPlan(event, policy) ==
    [matched |-> TRUE, matched_policy_id |-> policy.policy_id,
     mode |-> policy.mode, actions |-> policy.actions,
     ttl_minutes |-> policy.ttl_minutes,
     target_principals |-> policy.scope]

\* The last enabled policy that matches, in list order.
RECURSIVE EvaluateFromLast(_, _, _, _)
EvaluateFromLast(event, policies, i, wall) ==
    IF i > Len(policies) THEN UnmatchedPlan
    ELSE LET rest == EvaluateFromLast(event, policies, i + 1, wall)
         IN  IF rest.matched THEN rest
             ELSE IF policies[i].enabled /\ MatchEvent(event, policies[i], wall)
             THEN BuildActionPlan(event, policies[i])
             ELSE UnmatchedPlan

\* The first policy that matches, in list order, enabled or not.
RECURSIVE EvaluateFromAnyPolicy(_, _, _, _)
EvaluateFromAnyPolicy(event, policies, i, wall) ==
    IF i > Len(policies) THEN UnmatchedPlan
    ELSE IF MatchEvent(event, policies[i], wall)
    THEN BuildActionPlan(event, policies[i])
    ELSE EvaluateFromAnyPolicy(event, policies, i + 1, wall)

\* PolicyEngine.evaluate: the first enabled policy that matches, in list order.
RECURSIVE EvaluateFrom(_, _, _, _)
EvaluateFrom(event, policies, i, wall) ==
    IF i > Len(policies) THEN UnmatchedPlan
    ELSE IF ~policies[i].enabled THEN EvaluateFrom(event, policies, i + 1, wall)
    ELSE IF MatchEvent(event, policies[i], wall)
    THEN BuildActionPlan(event, policies[i])
    ELSE EvaluateFrom(event, policies, i + 1, wall)

Evaluate(event, policies, wall) == EvaluateFrom(event, policies, 1, wall)

(***************************************************************************)
(* The policies loaded by the event handler and the cost events it is      *)
(* given.  The first matching policy in list order makes the plan.         *)
(***************************************************************************)
Account == "123456789012"
DenyList == <<"ec2:RunInstances">>

Policy(id, mode, ttl, min, scope, actions) ==
    [policy_id |-> id, enabled |-> TRUE, mode |-> mode, ttl_minutes |-> ttl,
     match |-> [source |-> {"budgets"}, account_ids |-> {Account},
                min_amount_usd |-> min,
                max_amount_usd |-> [given |-> FALSE, value |-> 0],
                services |-> NoFilter, regions |-> NoFilter],
     scope |-> scope, actions |-> actions, exceptions |-> NoExceptions]

AttachAction == [type |-> "attach_deny_policy", deny |-> DenyList]
NotifyAction == [type |-> "notify_only", deny |-> <<>>]

Policies ==
    << Policy("auto-pair", "auto", 60, 50, <<RoleA, RoleB>>, <<AttachAction>>),
       Policy("manual-pair", "manual", 60, 40, <<RoleA, RoleB>>, <<AttachAction>>),
       Policy("auto-one", "auto", 60, 30, <<RoleA>>, <<AttachAction>>),
       Policy("manual-one", "manual", 60, 20, <<RoleB>>, <<AttachAction>>),
       Policy("watch", "dry_run", 0, 10, <<RoleA>>, <<NotifyAction>>) >>

CostEvent(amount) ==
    [event_id |-> amount, source |-> "budgets", account_id |-> Account,
     amount |-> amount,
     details |-> [service |-> "", region |-> "", principal_arn |-> <<>>]]

Amounts == {55, 45, 35, 25, 15, 5}

WallClock(t) ==
    [day |-> "mon", hour |-> t \div MinutesPerHour,
     minute |-> t % MinutesPerHour, second |-> 0]

(***************************************************************************)
(* The audit ledger (audit_store.py): items by execution id.  Execution    *)
(* ids are fresh; the k-th execution saved has id k.                       *)
(***************************************************************************)
\* AuditStore._execution_to_item / _item_to_execution: the optional
\* datetimes are written only when set and read back as None when absent.
ExecutionToItem(execution) ==
    [execution_id |-> execution.execution_id, policy_id |-> execution.policy_id,
     event_id |-> execution.event_id, status |-> execution.status,
     executed_by |-> execution.executed_by, action |-> execution.action,
     target |-> execution.target, diff |-> execution.diff]
    @@ (IF execution.executed_at # NoTime
        THEN [executed_at |-> execution.executed_at] ELSE <<>>)
    @@ (IF execution.ttl_expires_at # NoTime
        THEN [ttl_expires_at |-> execution.ttl_expires_at] ELSE <<>>)
    @@ (IF execution.rolled_back_at # NoTime
        THEN [rolled_back_at |-> execution.rolled_back_at] ELSE <<>>)

ItemToExecution(item) ==
    [execution_id |-> item.execution_id, policy_id |-> item.policy_id,
     event_id |-> item.event_id, status |-> item.status,
     executed_at |-> IF "executed_at" \in DOMAIN item
                     THEN item.executed_at ELSE NoTime,
     executed_by |-> item.executed_by, action |-> item.action,
     target |-> item.target, diff |-> item.diff,
     ttl_expires_at |-> IF "ttl_expires_at" \in DOMAIN item
                        THEN item.ttl_expires_at ELSE NoTime,
     rolled_back_at |-> IF "rolled_back_at" \in DOMAIN item
                        THEN item.rolled_back_at ELSE NoTime]

\* AuditStore.save_execution / update_execution: put_item under execution_id.
PutItem(store, execution) ==
    IF execution.execution_id \in DOMAIN store
    THEN [store EXCEPT ![execution.execution_id] = ExecutionToItem(execution)]
    ELSE store @@ (execution.execution_id :> ExecutionToItem(execution))

RECURSIVE PutAll(_, _, _)
PutAll(store, executions, k) ==
    IF k > Len(executions) THEN store
    ELSE PutAll(PutItem(store, executions[k]), executions, k + 1)

IsExpiredAnyStatus(item, current_time) ==
    /\ "ttl_expires_at" \in DOMAIN item
    /\ item.ttl_expires_at <= current_time

\* A filter that takes a missing ttl_expires_at for an expired one.
IsExpiredOrNoTtl(item, current_time) ==
    /\ "ttl_expires_at" \in DOMAIN item => item.ttl_expires_at <= current_time
    /\ item.status = "executed"

\* AuditStore.query_expired_executions: the scan's filter.
IsExpired(item, current_time) ==
    /\ "ttl_expires_at" \in DOMAIN item
    /\ item.ttl_expires_at <= current_time
    /\ item.status = "executed"

QueryExpiredExecutions(store, current_time) ==
    {id \in DOMAIN store : IsExpired(store[id], current_time)}

\* What may go wrong with the scan: a ClientError, or any other exception.
QueryFaults == {"none", "client_error", "error"}

\* A query that answers every failure of the scan with the empty list.
QueryExpiredNeverRaises(store, current_time, fault) ==
    IF fault = "none"
    THEN [raised |-> FALSE, found |-> QueryExpiredExecutions(store, current_time)]
    ELSE [raised |-> FALSE, found |-> {}]

\* AuditStore.query_expired_executions as its caller sees it: a ClientError
\* is caught and answered with the empty list, anything else is raised.
QueryExpiredAnswer(store, current_time, fault) ==
    IF fault = "client_error" THEN [raised |-> FALSE, found |-> {}]
    ELSE IF fault = "error" THEN [raised |-> TRUE, found |-> {}]
    ELSE [raised |-> FALSE, found |-> QueryExpiredExecutions(store, current_time)]

(***************************************************************************)
(* State.                                                                  *)
(***************************************************************************)
VARIABLES
    ledger,        \* the audit table: execution id -> item
    iamPolicies,   \* the managed deny policies that exist
    attached,      \* principal -> the policies attached to it
    now,           \* the wall clock
    approvals,     \* the handle_approval invocations
    sweeps,        \* the cleanup_expired_executions invocations
    approved,      \* history: the executions an approval answered ok for
    call           \* rollback_execution called directly: argument and result

vars ==
    <<ledger, iamPolicies, attached, now, approvals, sweeps, approved, call>>

Secret == "approval-secret"
BadTimestamp == -2     \* a timestamp that does not parse
AwareTimestamp == -3   \* the present instant written with a UTC offset ("...Z")

NoExecution == NewExecution(NoId, "", 0, "", NotifyAction, <<>>)

\* An invocation of handle_approval: its arguments, its locals, the response
\* (outcome) and what it did (ledger reads and writes, executor calls).
\* prior_ok: an earlier invocation had answered ok for the same execution;
\* uncaught: the exception that handle_approval let through, if any.
IdleApproval ==
    [pc |-> "idle", execution_id |-> NoId, signature |-> <<>>,
     timestamp |-> NoTime, user |-> "", execution |-> NoExecution,
     raised |-> FALSE, outcome |-> 0, reads |-> 0, writes |-> 0,
     executor_calls |-> 0, prior_ok |-> FALSE, read_status |-> "",
     uncaught |-> "", notify_raised |-> FALSE]

\* An invocation of cleanup_expired_executions: the handler's batch_size,
\* its working set, the loop position, the counters and the errors list of
\* its result, and what it did.  follows: it started right after another
\* sweep returned; prev_found, prev_capped: that sweep's total_found, and
\* whether its working set had been cut to batch_size, prev_fault: what
\* went wrong with that sweep's query.  found: the ids the
\* query returned; visited: the ids the loop took up, in order; writes: the
\* ledger writes made; notify_raised: the ids whose rollback confirmation
\* the notifier failed to send.
IdleSweep ==
    [pc |-> "idle", batch_size |-> 0, candidates |-> <<>>, cur |-> 0,
     success |-> FALSE,
     total_found |-> 0, rolled_back |-> 0, failed |-> 0, skipped |-> 0,
     errors |-> <<>>, query_fault |-> "none", prev_fault |-> "none",
     capped |-> FALSE, follows |-> FALSE, prev_found |-> 0,
     prev_capped |-> FALSE, found |-> {}, visited |-> <<>>, writes |-> 0,
     rollback_calls |-> {}, detached |-> {}, notify_raised |-> {}]

\* rollback_execution called directly: the executor's mode, the execution
\* object handed to it (mutated in place), the calls and detaches so far,
\* and what the last call returned.
NoCall ==
    [dry_run |-> FALSE, execution |-> NoExecution, calls |-> 0, detaches |-> 0,
     result |-> FALSE]

Init ==
    /\ call = NoCall
    /\ ledger = <<>>
    /\ iamPolicies = {}
    /\ attached = [k \in PrincipalKeys |-> {}]
    /\ now = 0
    /\ approvals = [i \in 1..MaxApprovals |-> IdleApproval]
    /\ sweeps = [j \in 1..MaxSweeps |-> IdleSweep]
    /\ approved = {}

\* An invocation of a handler is under way.
Busy ==
    \/ \E i \in 1..MaxApprovals : approvals[i].pc \notin {"idle", "done"}
    \/ \E j \in 1..MaxSweeps : sweeps[j].pc \notin {"idle", "done"}

\* exclusive: the entry points run one after another, and the record of an
\* invocation that has returned is dropped when the next entry point starts.
\* Otherwise invocations overlap, each slot holding one invocation.
MayStart(exclusive) == exclusive => ~Busy

\* Events and the clock: in the overlapping specifications they come before
\* the first invocation.
MayArrive(exclusive) ==
    IF exclusive THEN ~Busy
    ELSE /\ \A i \in 1..MaxApprovals : approvals[i].pc = "idle"
         /\ \A j \in 1..MaxSweeps : sweeps[j].pc = "idle"

Slot(exclusive, k, slots) ==
    IF exclusive THEN k = 1
    ELSE slots[k].pc = "idle" /\ (k > 1 => slots[k - 1].pc # "idle")

Dropped(exclusive, slots, idle) ==
    IF exclusive THEN [k \in DOMAIN slots |-> idle] ELSE slots

(***************************************************************************)
(* budgets_event.lambda_handler with execute_action_plan.                  *)
(***************************************************************************)
\* The plan as evaluate returned it, whatever DRY_RUN says.
EventPlanAsEvaluated(amount, global_dry_run, t) ==
    Evaluate(CostEvent(amount), Policies, WallClock(t))

\* lambda_handler lines 55-68: evaluate, and the global DRY_RUN override.
EventPlan(amount, global_dry_run, t) ==
    LET plan == Evaluate(CostEvent(amount), Policies, WallClock(t))
    IN  IF plan.matched /\ global_dry_run
        THEN [plan EXCEPT !.mode = "dry_run"]
        ELSE plan

\* The executions as the simulating executor returned them.
AsReturned(executions) == executions

\* budgets_event.execute_action_plan lines 326-328: the status override.
AsPlanned(executions) ==
    [k \in 1..Len(executions) |-> [executions[k] EXCEPT !.status = "planned"]]

\* lambda_handler with execute_action_plan: what it does to the ledger, to
\* IAM and to the invocations that had returned.
LambdaHandler(amount, global_dry_run, faults, exclusive) ==
    LET plan == EventPlan(amount, global_dry_run, now)
        firstId == Cardinality(DOMAIN ledger) + 1
    IN  /\ MayArrive(exclusive)
        /\ IF ~plan.matched \/ plan.mode = "dry_run"
           THEN /\ faults = <<>>
                /\ UNCHANGED <<ledger, iamPolicies, attached>>
           ELSE IF plan.mode = "manual"
           THEN LET r == ExecuteActionPlan(plan, amount, "system:budgets_event",
                                           TRUE, [k \in 1..Len(PlanPairs(plan)) |-> "none"],
                                           now, firstId, iamPolicies, attached)
                IN  /\ faults = <<>>
                    /\ Cardinality(DOMAIN ledger) + Len(r.executions) <= MaxExecs
                    /\ ledger' = PutAll(ledger, AsPlanned(r.executions), 1)
                    /\ UNCHANGED <<iamPolicies, attached>>
           ELSE LET r == ExecuteActionPlan(plan, amount, "system:auto", FALSE,
                                           faults, now, firstId, iamPolicies,
                                           attached)
                IN  /\ faults \in [1..Len(PlanPairs(plan)) -> Faults]
                    /\ Cardinality(DOMAIN ledger) + Len(r.executions) <= MaxExecs
                    /\ ledger' = PutAll(ledger, r.executions, 1)
                    /\ iamPolicies' = r.pols
                    /\ attached' = r.att
        /\ approvals' = Dropped(exclusive, approvals, IdleApproval)
        /\ sweeps' = Dropped(exclusive, sweeps, IdleSweep)
        /\ UNCHANGED <<now, approved>>

HandleEvent(amount, global_dry_run, faults, exclusive) ==
    /\ LambdaHandler(amount, global_dry_run, faults, exclusive)
    /\ UNCHANGED call

\* Time passes, an hour at a time.
Tick(exclusive) ==
    /\ MayArrive(exclusive)
    /\ now < MaxTime * MinutesPerHour
    /\ now' = now + MinutesPerHour
    /\ approvals' = Dropped(exclusive, approvals, IdleApproval)
    /\ sweeps' = Dropped(exclusive, sweeps, IdleSweep)
    /\ UNCHANGED <<ledger, iamPolicies, attached, approved, call>>

(***************************************************************************)
(* approval_webhook.ApprovalWebhookHandler.                                *)
(***************************************************************************)
\* _generate_signature: HMAC-SHA256 under the secret of "<execution_id>:<timestamp>".
GenerateSignature(secret, execution_id, timestamp) ==
    <<secret, execution_id, timestamp>>

AnySignature(execution_id, timestamp, signature) == TRUE

\* _verify_signature
VerifySignature(execution_id, timestamp, signature) ==
    GenerateSignature(Secret, execution_id, timestamp) = signature

\* A freshness test whose window excludes its upper bound.
IsExpiredTimestampInclusive(timestamp, t) ==
    IF timestamp = BadTimestamp THEN [raised |-> FALSE, expired |-> TRUE]
    ELSE IF timestamp = AwareTimestamp THEN [raised |-> TRUE, expired |-> FALSE]
    ELSE [raised |-> FALSE,
          expired |-> (t - timestamp) >= approval_timeout_hours * MinutesPerHour]

\* _is_expired: an unparsable timestamp counts as expired (ValueError is
\* caught); a timestamp with an offset parses to an aware datetime, and
\* subtracting it from the naive utcnow() raises TypeError, which is not.
IsExpiredTimestamp(timestamp, t) ==
    IF timestamp = BadTimestamp THEN [raised |-> FALSE, expired |-> TRUE]
    ELSE IF timestamp = AwareTimestamp THEN [raised |-> TRUE, expired |-> FALSE]
    ELSE [raised |-> FALSE,
          expired |-> (t - timestamp) > approval_timeout_hours * MinutesPerHour]

\* A deny list read from would_deny alone.
DenyActionsOfWouldDeny(diff) == diff.would_deny

\* handle_approval lines 112-118: the deny list of the planned execution.
DenyActionsOf(diff) ==
    IF diff.would_deny # <<>> THEN diff.would_deny
    ELSE IF diff.policy_document # <<>> THEN diff.policy_document[1]
    ELSE <<>>

\* A plan aimed at the first target of the policy, whatever the record.
ApprovalPlanFirstTarget(execution, deny_actions) ==
    [matched |-> TRUE, matched_policy_id |-> execution.policy_id,
     mode |-> "manual",
     actions |-> <<[type |-> execution.action, deny |-> deny_actions]>>,
     ttl_minutes |-> 0, target_principals |-> <<RoleA>>]

\* handle_approval lines 124-136
ApprovalPlan(execution, deny_actions) ==
    [matched |-> TRUE, matched_policy_id |-> execution.policy_id,
     mode |-> "manual",
     actions |-> <<[type |-> execution.action, deny |-> deny_actions]>>,
     ttl_minutes |-> 0, target_principals |-> <<execution.target>>]

\* The response (code 0: none, the call raised).
ApprovalReturn(i, code, a, slots) ==
    /\ approvals' = [slots EXCEPT ![i] = [a EXCEPT !.pc = "done",
                                                  !.outcome = code]]
    /\ approved' = IF code = 200 THEN approved \cup {a.execution_id}
                   ELSE approved

\* handle_approval lines 78-92.  Gates 1-3: signature, freshness, then the
\* ledger read.
ApprovalReceive(i, execution_id, signature, timestamp, exclusive) ==
    LET slots == Dropped(exclusive, approvals, IdleApproval)
        a == [IdleApproval EXCEPT !.execution_id = execution_id,
                                  !.signature = signature,
                                  !.timestamp = timestamp, !.user = "alice",
                                  !.prior_ok = (execution_id \in approved)]
    IN  /\ MayStart(exclusive)
        /\ Slot(exclusive, i, approvals)
        /\ IF ~VerifySignature(execution_id, timestamp, signature)
           THEN ApprovalReturn(i, 403, a, slots)
           ELSE IF IsExpiredTimestamp(timestamp, now).raised
           THEN ApprovalReturn(i, 0, [a EXCEPT !.uncaught = "TypeError"], slots)
           ELSE IF IsExpiredTimestamp(timestamp, now).expired
           THEN ApprovalReturn(i, 410, a, slots)
           ELSE IF execution_id \notin DOMAIN ledger
           THEN ApprovalReturn(i, 404, [a EXCEPT !.reads = @ + 1], slots)
           ELSE /\ approvals' =
                      [slots EXCEPT ![i] =
                          [a EXCEPT !.pc = "loaded", !.reads = @ + 1,
                                    !.read_status = ledger[execution_id].status,
                                    !.execution =
                                        ItemToExecution(ledger[execution_id])]]
                /\ UNCHANGED approved
        /\ sweeps' = Dropped(exclusive, sweeps, IdleSweep)
        /\ UNCHANGED <<ledger, iamPolicies, attached, now, call>>

\* handle_approval lines 94-102.  Gate 4: the status of the execution as read.
ApprovalCheckStatus(i) ==
    /\ approvals[i].pc = "loaded"
    /\ IF approvals[i].execution.status # "planned"
       THEN ApprovalReturn(i, 409, approvals[i], approvals)
       ELSE /\ approvals' = [approvals EXCEPT ![i].pc = "checked"]
            /\ UNCHANGED approved
    /\ UNCHANGED <<ledger, iamPolicies, attached, now, sweeps, call>>

\* The executor's record as returned, under the id the executor gave it.
KeepFreshId(new_execution, execution_id) == new_execution

\* handle_approval line 151: the executor's record takes the original id.
KeepOriginalId(new_execution, execution_id) ==
    [new_execution EXCEPT !.execution_id = execution_id]

\* handle_approval lines 105-151.  Step 5: the deferred execution in real mode.
ApprovalExecute(i, fault) ==
    LET a == approvals[i]
        execution == a.execution
        deny_actions == DenyActionsOf(execution.diff)
        r == ExecuteActionPlan(ApprovalPlan(execution, deny_actions),
                               execution.event_id, "user:" \o a.user, FALSE,
                               <<fault>>, now, Cardinality(DOMAIN ledger) + 1,
                               iamPolicies, attached)
    IN  /\ a.pc = "checked"
        /\ execution.action # "attach_deny_policy" => fault = "none"
        /\ IF deny_actions = <<>> /\ execution.action = "attach_deny_policy"
           THEN /\ fault = "none"
                /\ ApprovalReturn(i, 500, a, approvals)
                /\ UNCHANGED <<iamPolicies, attached>>
           ELSE /\ approvals' =
                      [approvals EXCEPT ![i] =
                          [a EXCEPT
                             !.pc = "update",
                             !.executor_calls = @ + 1,
                             !.raised = r.raised,
                             !.execution =
                                 IF r.raised
                                 THEN [execution EXCEPT
                                         !.status = "failed",
                                         !.diff = [EmptyDiff EXCEPT
                                                     !.error = "ValueError"]]
                                 ELSE KeepOriginalId(r.executions[1],
                                                     a.execution_id)]]
                /\ iamPolicies' = r.pols
                /\ attached' = r.att
                /\ UNCHANGED approved
        /\ UNCHANGED <<ledger, now, sweeps, call>>

\* A notification sent outside any try: its exception becomes the failure.
NotifyUnguarded(result, failure, notify_raised) ==
    IF notify_raised THEN failure ELSE result

\* The notification wrapped in try/except Exception: the exception is
\* logged and the result stands.
NotifyGuarded(result, failure, notify_raised) == result

ApprovalRespond(i, notifyFails) ==
    /\ approvals[i].pc = "update"
    /\ ~notifyFails
    /\ ApprovalReturn(i, IF approvals[i].raised THEN 500 ELSE 200,
                      approvals[i], approvals)
    /\ UNCHANGED <<ledger, iamPolicies, attached, now, sweeps, call>>

ApprovalUpdateApproved(i, notifyFails) ==
    /\ approvals[i].pc = "update"
    /\ ~notifyFails
    /\ ledger' = PutItem(ledger, [approvals[i].execution EXCEPT
                                    !.status = "approved"])
    /\ ApprovalReturn(i, IF approvals[i].raised THEN 500 ELSE 200,
                      [approvals[i] EXCEPT !.writes = @ + 1], approvals)
    /\ UNCHANGED <<iamPolicies, attached, now, sweeps, call>>

\* handle_approval lines 152-184.  The ledger write under the original
\* execution_id, the confirmation (sent only when the executor returned),
\* and the response.
ApprovalUpdate(i, notifyFails) ==
    LET a == approvals[i]
    IN  /\ a.pc = "update"
        /\ a.raised => ~notifyFails
        /\ ledger' = PutItem(ledger, a.execution)
        /\ ApprovalReturn(i, IF a.raised THEN 500
                             ELSE NotifyGuarded(200, 500, notifyFails),
                          [a EXCEPT !.writes = @ + 1,
                                    !.notify_raised = notifyFails], approvals)
        /\ UNCHANGED <<iamPolicies, attached, now, sweeps, call>>

(***************************************************************************)
(* ttl_cleanup.TTLCleanupHandler.                                          *)
(***************************************************************************)
Min(a, b) == IF a < b THEN a ELSE b

\* The orders in which a table scan may give the items of S, all of them.
ScanOrders(S, n) ==
    {q \in [1..Cardinality(S) -> S] :
        \A x, y \in DOMAIN q : x # y => q[x] # q[y]}

\* The orders in which a table scan may give the items of S, cut to n.
ScanPrefixes(S, n) ==
    {q \in [1..Min(n, Cardinality(S)) -> S] :
        \A x, y \in DOMAIN q : x # y => q[x] # q[y]}

\* The result of the run.
SweepReturn(j, w, slots) ==
    sweeps' = [slots EXCEPT ![j] = [w EXCEPT !.pc = "done", !.success = TRUE]]

\* cleanup_expired_executions lines 76-94 and 138-146: the query, the empty
\* answer, the cap; the exception of the query caught by the outer handler.
SweepQuery(j, batch_size, fault, order, exclusive) ==
    LET slots == Dropped(exclusive, sweeps, IdleSweep)
        answer == QueryExpiredAnswer(ledger, now, fault)
        found == answer.found
        w == [IdleSweep EXCEPT
                !.batch_size = batch_size,
                !.query_fault = fault,
                !.prev_fault = sweeps[1].query_fault,
                !.follows = (sweeps[1].pc = "done"),
                !.prev_found = sweeps[1].total_found,
                !.prev_capped = sweeps[1].capped,
                !.found = found,
                !.capped = Cardinality(found) > batch_size,
                !.candidates = [k \in DOMAIN order |->
                                   ItemToExecution(ledger[order[k]])],
                !.total_found = Len(order)]
    IN  /\ MayStart(exclusive)
        /\ Slot(exclusive, j, sweeps)
        /\ order \in ScanPrefixes(found, batch_size)
        /\ IF answer.raised
           THEN SweepReturn(j, [w EXCEPT !.errors = <<"cleanup_run_failure">>],
                            slots)
           ELSE IF found = {}
           THEN SweepReturn(j, w, slots)
           ELSE sweeps' = [slots EXCEPT ![j] = [w EXCEPT !.pc = "rollback",
                                                         !.cur = 1]]
        /\ approvals' = Dropped(exclusive, approvals, IdleApproval)
        /\ UNCHANGED <<ledger, iamPolicies, attached, now, approved, call>>

\* A failure that is noted in the diff and leaves the status as it was.
MarkFailedKeepsStatus(execution, error) ==
    [execution EXCEPT !.diff.rollback_error = error]

\* _rollback_execution lines 193-208: status failed, the error in the diff.
MarkFailed(execution, error) ==
    [execution EXCEPT !.status = "failed", !.diff.rollback_error = error]

\* A sweep without the status check.
SkipsNoCandidate(execution) == FALSE

\* _rollback_execution lines 163-166: only an executed candidate is rolled back.
SkipsCandidate(execution) == execution.status # "executed"

\* The answers of a store that does not keep to the status filter (the stub
\* of the unit tests): up to n ledger records in some order, each one either
\* expired or of a status other than executed, one at least of the latter.
HandedOrders(store, current_time, n) ==
    LET ok == {id \in DOMAIN store :
                  \/ IsExpired(store[id], current_time)
                  \/ store[id].status # "executed"}
    IN  {q \in UNION {[1..m -> ok] : m \in 1..n} :
            /\ \A x, y \in DOMAIN q : x # y => q[x] # q[y]
            /\ \E x \in DOMAIN q : store[q[x]].status # "executed"}

\* cleanup_expired_executions lines 76-94 with such a store.
SweepHanded(j, order, exclusive) ==
    LET slots == Dropped(exclusive, sweeps, IdleSweep)
        found == {order[k] : k \in DOMAIN order}
        w == [IdleSweep EXCEPT
                !.batch_size = MaxBatch,
                !.prev_fault = sweeps[1].query_fault,
                !.follows = (sweeps[1].pc = "done"),
                !.prev_found = sweeps[1].total_found,
                !.prev_capped = sweeps[1].capped,
                !.found = found,
                !.candidates = [k \in DOMAIN order |->
                                   ItemToExecution(ledger[order[k]])],
                !.total_found = Len(order)]
    IN  /\ MayStart(exclusive)
        /\ Slot(exclusive, j, sweeps)
        /\ order \in HandedOrders(ledger, now, MaxBatch)
        /\ sweeps' = [slots EXCEPT ![j] = [w EXCEPT !.pc = "rollback",
                                                    !.cur = 1]]
        /\ approvals' = Dropped(exclusive, approvals, IdleApproval)
        /\ UNCHANGED <<ledger, iamPolicies, attached, now, approved, call>>

\* _rollback_execution lines 163-174: the status check on the copy read by
\* the query, and the executor's rollback.
SweepRollback(j, detachFails, deleteFails) ==
    LET w == sweeps[j]
        execution == w.candidates[w.cur]
        r == RollbackExecution(execution, FALSE, detachFails, deleteFails, now,
                               iamPolicies, attached)
    IN  /\ w.pc = "rollback"
        /\ IF SkipsCandidate(execution)
           THEN /\ ~detachFails /\ ~deleteFails
                /\ sweeps' = [sweeps EXCEPT ![j] =
                                 [w EXCEPT !.skipped = @ + 1, !.pc = "next",
                                           !.visited = Append(@, execution.execution_id)]]
                /\ UNCHANGED <<iamPolicies, attached>>
           ELSE /\ detachFails => ~deleteFails
                /\ deleteFails => r.detached
                /\ sweeps' =
                      [sweeps EXCEPT ![j] =
                          [w EXCEPT
                             !.pc = "persist",
                             !.success = r.success,
                             !.visited = Append(@, execution.execution_id),
                             !.rollback_calls = @ \cup {execution.execution_id},
                             !.detached = IF r.detached
                                          THEN @ \cup {execution.execution_id}
                                          ELSE @,
                             !.candidates[w.cur] =
                                 IF r.success
                                 THEN [r.execution EXCEPT
                                         !.status = "rolled_back",
                                         !.rolled_back_at = now]
                                 ELSE MarkFailed(r.execution,
                                                 "Rollback returned False")]]
                /\ iamPolicies' = r.pols
                /\ attached' = r.att
        /\ UNCHANGED <<ledger, now, approvals, approved, call>>

\* _rollback_execution lines 171-174 and 203-208 with an executor whose
\* rollback_execution raises (the stub of the unit tests; the repository's
\* executor catches every Exception and returns False).
SweepRollbackRaises(j) ==
    LET w == sweeps[j]
        execution == w.candidates[w.cur]
    IN  /\ w.pc = "rollback"
        /\ ~SkipsCandidate(execution)
        /\ sweeps' =
              [sweeps EXCEPT ![j] =
                  [w EXCEPT
                     !.pc = "persist",
                     !.success = FALSE,
                     !.visited = Append(@, execution.execution_id),
                     !.rollback_calls = @ \cup {execution.execution_id},
                     !.candidates[w.cur] = MarkFailed(execution, "Exception")]]
        /\ UNCHANGED <<ledger, iamPolicies, attached, now, approvals,
                       approved, call>>

\* _rollback_execution lines 176-201: the ledger write, the confirmation
\* (sent only after a rollback that succeeded), and the loop's count.
\* A sweep that counts the outcome and does not write the ledger.
SweepPersistCountsOnly(j, notifyFails) ==
    LET w == sweeps[j]
    IN  /\ w.pc = "persist"
        /\ ~w.success => ~notifyFails
        /\ sweeps' = [sweeps EXCEPT ![j] =
                         [w EXCEPT !.pc = "next",
                                   !.rolled_back = IF w.success THEN @ + 1 ELSE @,
                                   !.failed = IF w.success THEN @ ELSE @ + 1]]
        /\ UNCHANGED <<ledger, iamPolicies, attached, now, approvals, approved,
                       call>>

SweepPersist(j, notifyFails) ==
    LET w == sweeps[j]
        result == IF w.success
                  THEN NotifyGuarded("rolled_back", "failed", notifyFails)
                  ELSE "failed"
    IN  /\ w.pc = "persist"
        /\ ~w.success => ~notifyFails
        /\ ledger' = PutItem(ledger, w.candidates[w.cur])
        /\ sweeps' = [sweeps EXCEPT ![j] =
                         [w EXCEPT !.pc = "next", !.writes = @ + 1,
                                   !.notify_raised =
                                       IF notifyFails
                                       THEN @ \cup {w.candidates[w.cur].execution_id}
                                       ELSE @,
                                   !.rolled_back =
                                       IF result = "rolled_back" THEN @ + 1 ELSE @,
                                   !.failed =
                                       IF result = "failed" THEN @ + 1 ELSE @]]
        /\ UNCHANGED <<iamPolicies, attached, now, approvals, approved, call>>

\* A loop that is left at the first candidate whose rollback failed.
SweepNextStopOnFailure(j) ==
    LET w == sweeps[j]
    IN  /\ w.pc = "next"
        /\ IF w.cur < Len(w.candidates) /\ w.candidates[w.cur].status # "failed"
           THEN sweeps' = [sweeps EXCEPT ![j] = [w EXCEPT !.pc = "rollback",
                                                         !.cur = @ + 1]]
           ELSE SweepReturn(j, w, sweeps)
        /\ UNCHANGED <<ledger, iamPolicies, attached, now, approvals,
                       approved, call>>

\* cleanup_expired_executions lines 102 and 130-136: the loop, and the result.
SweepNext(j) ==
    LET w == sweeps[j]
    IN  /\ w.pc = "next"
        /\ IF w.cur < Len(w.candidates)
           THEN sweeps' = [sweeps EXCEPT ![j] = [w EXCEPT !.pc = "rollback",
                                                         !.cur = @ + 1]]
           ELSE SweepReturn(j, w, sweeps)
        /\ UNCHANGED <<ledger, iamPolicies, attached, now, approvals,
                       approved, call>>

(***************************************************************************)
(* rollback_execution as a function of its argument: the executions it may *)
(* be handed (any status, any action type, a diff of a real attach, of a   *)
(* dry run, or without the fields), over the IAM states of one policy.     *)
(***************************************************************************)
SharedPolicy == PolicyName("auto-pair", DenyList)

RollbackDiffs ==
    {EmptyDiff,
     [EmptyDiff EXCEPT !.dry_run = TRUE, !.would_deny = DenyList],
     [EmptyDiff EXCEPT !.policy_arn = SharedPolicy, !.principal_type = "role"],
     [EmptyDiff EXCEPT !.policy_arn = SharedPolicy, !.principal_type = "role",
                       !.principal_name = "ci-a", !.has_before = TRUE,
                       !.has_after = TRUE, !.after = {SharedPolicy}]}

RollbackInputs ==
    {[NoExecution EXCEPT !.execution_id = 1, !.policy_id = "auto-pair",
                         !.status = st, !.action = ac, !.target = RoleA,
                         !.diff = df] :
        st \in {"planned", "approved", "executed", "failed", "rolled_back"},
        ac \in {"attach_deny_policy", "notify_only", "stop_instances"},
        df \in RollbackDiffs}

InitRollback ==
    /\ ledger = <<>>
    /\ now = 0
    /\ approvals = [i \in 1..MaxApprovals |-> IdleApproval]
    /\ sweeps = [j \in 1..MaxSweeps |-> IdleSweep]
    /\ approved = {}
    /\ attached \in [PrincipalKeys -> SUBSET {SharedPolicy}]
    /\ iamPolicies \in SUBSET {SharedPolicy}
    /\ (\E k \in PrincipalKeys : attached[k] # {}) => iamPolicies # {}
    /\ call \in {[NoCall EXCEPT !.execution = e, !.dry_run = d] :
                    e \in RollbackInputs, d \in BOOLEAN}

RollbackCall(detachFails, deleteFails) ==
    LET r == RollbackExecution(call.execution, call.dry_run, detachFails,
                               deleteFails, now, iamPolicies, attached)
    IN  /\ call.calls < MaxCalls
        /\ deleteFails => r.detached
        /\ call' = [call EXCEPT !.execution = r.execution,
                                !.calls = @ + 1,
                                !.detaches = IF r.detached THEN @ + 1 ELSE @,
                                !.result = r.success]
        /\ iamPolicies' = r.pols
        /\ attached' = r.att
        /\ UNCHANGED <<ledger, now, approvals, sweeps, approved>>

(***************************************************************************)
(* execute_action_plan as a function of its arguments: plans that are      *)
(* unmatched, without a policy id, without actions or targets, with one or *)
(* two actions and up to two targets (one of which may be no IAM ARN), in  *)
(* either mode of the executor, with an IAM fault for each pair.           *)
(***************************************************************************)
BadArn == <<"arn", "aws", "s3", "", "", <<"bucket">>>>

ExecuteTargets ==
    {<<>>, <<RoleA>>, <<RoleA, RoleB>>, <<RoleB, RoleA>>, <<BadArn, RoleA>>,
     <<RoleA, BadArn>>}

\* Two deny lists of the same two actions in either order.
DenyPair == <<"ec2:RunInstances", "ec2:CreateNatGateway">>
DenyPairSwapped == <<"ec2:CreateNatGateway", "ec2:RunInstances">>
AttachPair == [type |-> "attach_deny_policy", deny |-> DenyPair]
AttachPairSwapped == [type |-> "attach_deny_policy", deny |-> DenyPairSwapped]

ExecuteActions ==
    {<<>>} \cup {<<a>> : a \in {AttachAction, NotifyAction}}
           \cup {<<a, b>> : a, b \in {AttachAction, NotifyAction}}
           \cup {<<AttachPair, AttachPair>>, <<AttachPair, AttachPairSwapped>>}

ExecutePlans ==
    {[matched |-> m, matched_policy_id |-> id, mode |-> "auto", actions |-> as,
      ttl_minutes |-> ttl, target_principals |-> ts] :
        m \in BOOLEAN, id \in {"", "auto-pair"}, as \in ExecuteActions,
        ttl \in {0, MinutesPerHour}, ts \in ExecuteTargets}

\* The call raises before it takes up any pair (executor_iam.py:53-57).
PreconditionViolated(plan) ==
    ~plan.matched \/ plan.matched_policy_id = "" \/ plan.actions = <<>>

\* A fault can only be met where the pair makes IAM calls.
ExecuteFaults(plan, dry_run) ==
    LET pairs == PlanPairs(plan)
    IN  {f \in [DOMAIN pairs -> Faults] :
            \A k \in DOMAIN pairs :
               (\/ PreconditionViolated(plan) \/ dry_run
                \/ pairs[k].action.type # "attach_deny_policy"
                \/ ~ParsePrincipalArn(pairs[k].target).ok) => f[k] = "none"}

NoExecuteCall ==
    [dry_run |-> FALSE, plan |-> UnmatchedPlan, faults |-> <<>>, calls |-> 0,
     raised |-> FALSE, executions |-> <<>>]

InitExecute ==
    /\ ledger = <<>>
    /\ now = 0
    /\ approvals = [i \in 1..MaxApprovals |-> IdleApproval]
    /\ sweeps = [j \in 1..MaxSweeps |-> IdleSweep]
    /\ approved = {}
    /\ attached = [k \in PrincipalKeys |-> {}]
    /\ iamPolicies = {}
    /\ \E plan \in ExecutePlans, d \in BOOLEAN :
          \E f \in ExecuteFaults(plan, d) :
             call = [NoExecuteCall EXCEPT !.plan = plan, !.dry_run = d,
                                          !.faults = f]

ExecuteCall ==
    LET r == ExecuteActionPlan(call.plan, 55, "system:auto", call.dry_run,
                               call.faults, now, 1, iamPolicies, attached)
    IN  /\ call.calls = 0
        /\ call' = [call EXCEPT !.calls = 1, !.raised = r.raised,
                                !.executions = r.executions]
        /\ iamPolicies' = r.pols
        /\ attached' = r.att
        /\ UNCHANGED <<ledger, now, approvals, sweeps, approved>>

(***************************************************************************)
(* evaluate as a function of its arguments and of the wall clock it reads: *)
(* events that differ in every field a policy looks at, and lists of up to *)
(* MaxPolicies policies, each of which exercises one condition of          *)
(* match_event or one exception rule.  A principal ARN is kept as a        *)
(* sequence of pieces, "*" being the wildcard character.                   *)
(***************************************************************************)
MaxPolicies == 2

OtherAccount == "210987654321"
ProdArn == <<"role/", "production-", "api">>
DevArn == <<"role/", "dev-", "api">>
ProdPattern == <<"role/", "production-", "*">>

EnginePolicy(id, enabled, source, account_ids, min, max, services, regions, exceptions) ==
    [policy_id |-> id, enabled |-> enabled, mode |-> "auto",
     ttl_minutes |-> MinutesPerHour,
     match |-> [source |-> source, account_ids |-> account_ids,
                min_amount_usd |-> min, max_amount_usd |-> max,
                services |-> services, regions |-> regions],
     scope |-> <<RoleA>>, actions |-> <<AttachAction>>,
     exceptions |-> exceptions]

NoMax == [given |-> FALSE, value |-> 0]
AnySource == {"budgets", "anomaly"}
AnyAccount == {Account, OtherAccount}

EnginePolicies ==
    {EnginePolicy("plain", TRUE, {"budgets"}, {Account}, 20, NoMax,
                  NoFilter, NoFilter, NoExceptions),
     EnginePolicy("off", FALSE, AnySource, AnyAccount, 10, NoMax,
                  NoFilter, NoFilter, NoExceptions),
     EnginePolicy("capped", TRUE, AnySource, AnyAccount, 10,
                  [given |-> TRUE, value |-> 20], NoFilter, NoFilter,
                  NoExceptions),
     EnginePolicy("ec2-only", TRUE, AnySource, AnyAccount, 10, NoMax,
                  Filter({"ec2"}), NoFilter, NoExceptions),
     EnginePolicy("east-only", TRUE, AnySource, AnyAccount, 10, NoMax,
                  NoFilter, Filter({"us-east-1"}), NoExceptions),
     EnginePolicy("spare-other", TRUE, AnySource, AnyAccount, 10, NoMax,
                  NoFilter, NoFilter,
                  [NoExceptions EXCEPT !.accounts = {OtherAccount}]),
     EnginePolicy("spare-production", TRUE, AnySource, AnyAccount, 10, NoMax,
                  NoFilter, NoFilter,
                  [NoExceptions EXCEPT !.principals = <<ProdPattern>>]),
     EnginePolicy("spare-monday-morning", TRUE, AnySource, AnyAccount, 10,
                  NoMax, NoFilter, NoFilter,
                  [NoExceptions EXCEPT
                     !.time_windows = <<[days |-> {"mon"}, start |-> <<1, 0>>,
                                         end |-> <<2, 0>>]>>])}

PolicyLists ==
    UNION {[1..n -> EnginePolicies] : n \in 0..MaxPolicies}

EngineEvents ==
    {[event_id |-> 1, source |-> src, account_id |-> acc, amount |-> amt,
      details |-> [service |-> svc, region |-> reg, principal_arn |-> arn]] :
        src \in AnySource, acc \in AnyAccount, amt \in {10, 20, 30},
        svc \in {"", "ec2", "s3"}, reg \in {"", "us-east-1"},
        arn \in {<<>>, ProdArn, DevArn}}

\* datetime.utcnow() as _in_exempted_time_window reads it: before the
\* window, at its first second, at its last, and after it.
EngineWalls == {WallClock(0), WallClock(60), WallClock(120), WallClock(180)}

NoEvaluateCall ==
    [event |-> CostEvent(10), policies |-> <<>>, calls |-> 0, walls |-> <<>>,
     plans |-> <<>>, matches |-> <<>>]

InitEvaluate ==
    /\ ledger = <<>>
    /\ now = 0
    /\ approvals = [i \in 1..MaxApprovals |-> IdleApproval]
    /\ sweeps = [j \in 1..MaxSweeps |-> IdleSweep]
    /\ approved = {}
    /\ attached = [k \in PrincipalKeys |-> {}]
    /\ iamPolicies = {}
    /\ \E event \in EngineEvents, policies \in PolicyLists :
          call = [NoEvaluateCall EXCEPT !.event = event, !.policies = policies]

\* An engine that answers an event once and has no plan for it afterwards.
EvaluateCallOnce(wall) ==
    /\ call.calls < MaxCalls
    /\ call' = [call EXCEPT
                  !.calls = @ + 1,
                  !.walls = Append(@, wall),
                  !.plans = Append(@, IF call.calls = 0
                                      THEN Evaluate(call.event, call.policies, wall)
                                      ELSE UnmatchedPlan),
                  !.matches = Append(@, [i \in DOMAIN call.policies |->
                                  MatchEvent(call.event, call.policies[i], wall)])]
    /\ UNCHANGED <<ledger, iamPolicies, attached, now, approvals, sweeps,
                   approved>>

\* One call of evaluate(event, policies), and of match_event(event, policy)
\* for each policy of the list, at one reading of the clock; the objects
\* handed in are left as they are, the plan is a new object.
EvaluateCall(wall) ==
    /\ call.calls < MaxCalls
    /\ call' = [call EXCEPT
                  !.calls = @ + 1,
                  !.walls = Append(@, wall),
                  !.plans = Append(@, Evaluate(call.event, call.policies, wall)),
                  !.matches = Append(@, [i \in DOMAIN call.policies |->
                                  MatchEvent(call.event, call.policies[i], wall)])]
    /\ UNCHANGED <<ledger, iamPolicies, attached, now, approvals, sweeps,
                   approved>>

(***************************************************************************)
(* Approval links as texts.  generate_approval_url signs the text          *)
(* "<execution_id>:<timestamp>"; _verify_signature rebuilds that text from *)
(* the id and the timestamp of the request.  An execution_id is whatever   *)
(* string the caller or the query string of the request holds; the         *)
(* timestamp of a link is utcnow().isoformat(), which has colons in it.    *)
(* HMAC-SHA256 is taken to be one-to-one in the key and in the message; in *)
(* the approval model above ids and timestamps are numbers and the message *)
(* is the pair.                                                            *)
(***************************************************************************)
MaxIdLen == 3

MaxStampLen == 3

Chars == {"0", ":"}

Texts(n) == UNION {[1..m -> Chars] : m \in 1..n}

Secrets == {Secret, "guess"}

\* datetime.utcnow().isoformat(), cut down to "H:M".
IsoStamps == {<<h, ":", m>> : h \in Chars \ {":"}, m \in Chars \ {":"}}

\* message = f"{execution_id}:{timestamp}"
SignatureMessage(execution_id, timestamp) ==
    execution_id \o <<":">> \o timestamp

\* _generate_signature on texts
GenerateTextSignature(secret, execution_id, timestamp) ==
    <<secret, SignatureMessage(execution_id, timestamp)>>

\* _verify_signature on texts, in a handler holding secret
VerifyTextSignature(secret, execution_id, timestamp, signature) ==
    GenerateTextSignature(secret, execution_id, timestamp) = signature

NoUrlCall ==
    [issued |-> FALSE, secret |-> "", execution_id |-> <<>>,
     timestamp |-> <<>>, signature |-> <<>>, requests |-> 0,
     request |-> [secret |-> "", execution_id |-> <<>>, timestamp |-> <<>>,
                  verified |-> FALSE]]

InitUrls ==
    /\ ledger = <<>>
    /\ now = 0
    /\ approvals = [i \in 1..MaxApprovals |-> IdleApproval]
    /\ sweeps = [j \in 1..MaxSweeps |-> IdleSweep]
    /\ approved = {}
    /\ attached = [k \in PrincipalKeys |-> {}]
    /\ iamPolicies = {}
    /\ call = NoUrlCall

\* generate_approval_url(execution_id, base_url) in a handler holding secret.
GenerateApprovalUrl(secret, execution_id, timestamp) ==
    /\ ~call.issued
    /\ call' = [call EXCEPT
                  !.issued = TRUE,
                  !.secret = secret,
                  !.execution_id = execution_id,
                  !.timestamp = timestamp,
                  !.signature = GenerateTextSignature(secret, execution_id,
                                                      timestamp)]
    /\ UNCHANGED <<ledger, iamPolicies, attached, now, approvals, sweeps,
                   approved>>

\* Gate 1 of handle_approval in a handler holding secret, on the one request
\* made with the link's signature, with some id and some timestamp.
VerifyRequest(secret, execution_id, timestamp) ==
    /\ call.issued
    /\ call.requests = 0
    /\ call' = [call EXCEPT
                  !.requests = @ + 1,
                  !.request = [secret |-> secret,
                               execution_id |-> execution_id,
                               timestamp |-> timestamp,
                               verified |-> VerifyTextSignature(secret,
                                   execution_id, timestamp, call.signature)]]
    /\ UNCHANGED <<ledger, iamPolicies, attached, now, approvals, sweeps,
                   approved>>

NextUrls ==
    \/ \E secret \in Secrets, execution_id \in Texts(MaxIdLen),
          timestamp \in IsoStamps :
          GenerateApprovalUrl(secret, execution_id, timestamp)
    \/ \E secret \in Secrets, execution_id \in Texts(MaxIdLen),
          timestamp \in Texts(MaxStampLen) :
          VerifyRequest(secret, execution_id, timestamp)

SpecUrls == InitUrls /\ [][NextUrls]_vars

(***************************************************************************)
(* The cost-event handler called again and again, each call recorded with  *)
(* the event's amount, the DRY_RUN setting and the mode of the plan it     *)
(* acted on.                                                               *)
(***************************************************************************)
NoEventCall ==
    [calls |-> 0, amount |-> 0, global_dry_run |-> FALSE, matched |-> FALSE,
     mode |-> ""]

InitEvents ==
    /\ ledger = <<>>
    /\ now = 0
    /\ approvals = [i \in 1..MaxApprovals |-> IdleApproval]
    /\ sweeps = [j \in 1..MaxSweeps |-> IdleSweep]
    /\ approved = {}
    /\ attached = [k \in PrincipalKeys |-> {}]
    /\ iamPolicies = {}
    /\ call = NoEventCall

EventCall(amount, global_dry_run, faults) ==
    LET plan == EventPlan(amount, global_dry_run, now)
    IN  /\ call.calls <= MaxCalls
        /\ LambdaHandler(amount, global_dry_run, faults, TRUE)
        /\ call' = [calls |-> call.calls + 1, amount |-> amount,
                    global_dry_run |-> global_dry_run,
                    matched |-> plan.matched, mode |-> plan.mode]

(***************************************************************************)
(* The specifications.                                                     *)
(*   Spec          the entry points run one after another; approval        *)
(*                 requests are arbitrary (forged, stale, unknown id).     *)
(*   SpecApprovals invocations of handle_approval overlap; the requests    *)
(*                 are links the program signed.                           *)
(*   SpecSweeps    runs of cleanup_expired_executions overlap.             *)
(*   SpecRollback  rollback_execution called directly, again and again.    *)
(*   SpecExecute   execute_action_plan called directly, once.              *)
(*   SpecEvaluate  evaluate called directly, twice on the same arguments.  *)
(*   SpecEvents    the cost-event handler called again and again.          *)
(* In the second and third, events and the clock come before the           *)
(* invocations.                                                            *)
(***************************************************************************)
\* The signatures tried: the one of the link, and a forgery.
Signatures(execution_id, timestamp, exclusive) ==
    IF exclusive
    THEN {GenerateSignature(Secret, execution_id, timestamp),
          GenerateSignature("guess", execution_id, timestamp)}
    ELSE {GenerateSignature(Secret, execution_id, timestamp)}

\* The timestamps tried: the hours up to now, one that does not parse, and
\* one with an offset.
Timestamps(exclusive) ==
    LET past == {h * MinutesPerHour : h \in 0..(now \div MinutesPerHour)}
    IN  IF exclusive THEN past \cup {BadTimestamp, AwareTimestamp} ELSE past

EventFaults(amount, dry) ==
    LET plan == EventPlan(amount, dry, now)
    IN  IF plan.matched /\ plan.mode = "auto"
        THEN [1..Len(PlanPairs(plan)) -> Faults]
        ELSE {<<>>}

Environment(exclusive) ==
    \/ \E amount \in Amounts, dry \in BOOLEAN :
         \E faults \in EventFaults(amount, dry) :
            HandleEvent(amount, dry, faults, exclusive)
    \/ Tick(exclusive)

Approvals(exclusive) ==
    \/ \E i \in 1..MaxApprovals :
         \E id \in 1..Min(Cardinality(DOMAIN ledger) + 1, MaxExecs),
            timestamp \in Timestamps(exclusive) :
             \E signature \in Signatures(id, timestamp, exclusive) :
                ApprovalReceive(i, id, signature, timestamp, exclusive)
    \/ \E i \in 1..MaxApprovals : ApprovalCheckStatus(i)
    \/ \E i \in 1..MaxApprovals, fault \in Faults : ApprovalExecute(i, fault)
    \/ \E i \in 1..MaxApprovals, notifyFails \in BOOLEAN :
         ApprovalUpdate(i, notifyFails)

Sweeps(exclusive) ==
    \/ \E j \in 1..MaxSweeps :
         \E batch_size \in 1..MaxBatch, fault \in QueryFaults :
            \E order \in ScanPrefixes(QueryExpiredAnswer(ledger, now, fault).found, batch_size) :
               SweepQuery(j, batch_size, fault, order, exclusive)
    \/ \E j \in 1..MaxSweeps, detachFails, deleteFails \in BOOLEAN :
         SweepRollback(j, detachFails, deleteFails)
    \/ \E j \in 1..MaxSweeps, notifyFails \in BOOLEAN :
         SweepPersist(j, notifyFails)
    \/ \E j \in 1..MaxSweeps : SweepNext(j)

Next == Environment(TRUE) \/ Approvals(TRUE) \/ Sweeps(TRUE)

NextApprovals == Environment(FALSE) \/ Approvals(FALSE)

\* The entry points one at a time, the store and the executor of a sweep
\* being the real ones or the stubs.
NextHanded ==
    \/ \E amount \in Amounts :
         \E faults \in EventFaults(amount, FALSE) :
            /\ \A k \in DOMAIN faults : faults[k] = "none"
            /\ HandleEvent(amount, FALSE, faults, TRUE)
    \/ Tick(TRUE)
    \/ \E i \in 1..MaxApprovals, id \in DOMAIN ledger :
         ApprovalReceive(i, id, GenerateSignature(Secret, id, now), now, TRUE)
    \/ \E i \in 1..MaxApprovals : ApprovalCheckStatus(i)
    \/ \E i \in 1..MaxApprovals : ApprovalExecute(i, "none")
    \/ \E i \in 1..MaxApprovals : ApprovalUpdate(i, FALSE)
    \/ \E j \in 1..MaxSweeps :
         \E order \in ScanPrefixes(QueryExpiredAnswer(ledger, now, "none").found, MaxBatch) :
            SweepQuery(j, MaxBatch, "none", order, TRUE)
    \/ \E j \in 1..MaxSweeps :
         \E order \in HandedOrders(ledger, now, MaxBatch) :
            SweepHanded(j, order, TRUE)
    \/ \E j \in 1..MaxSweeps, detachFails, deleteFails \in BOOLEAN :
         SweepRollback(j, detachFails, deleteFails)
    \/ \E j \in 1..MaxSweeps : SweepRollbackRaises(j)
    \/ \E j \in 1..MaxSweeps : SweepPersist(j, FALSE)
    \/ \E j \in 1..MaxSweeps : SweepNext(j)

SpecHanded == Init /\ [][NextHanded]_vars

NextSweeps == Environment(FALSE) \/ Sweeps(FALSE)

NextRollback ==
    \E detachFails, deleteFails \in BOOLEAN :
        RollbackCall(detachFails, deleteFails)

Spec == Init /\ [][Next]_vars

SpecApprovals == Init /\ [][NextApprovals]_vars

SpecSweeps == Init /\ [][NextSweeps]_vars

SpecRollback == InitRollback /\ [][NextRollback]_vars

NextExecute == ExecuteCall

NextEvaluate == \E wall \in EngineWalls : EvaluateCall(wall)

SpecEvaluate == InitEvaluate /\ [][NextEvaluate]_vars

NextEvents ==
    \E amount \in Amounts, dry \in BOOLEAN :
       \E faults \in EventFaults(amount, dry) : EventCall(amount, dry, faults)

SpecEvents == InitEvents /\ [][NextEvents]_vars

SpecExecute == InitExecute /\ [][NextExecute]_vars

(***************************************************************************)
(* Properties.                                                             *)
(***************************************************************************)

C2_AtMostOneApproval ==
    \A i, j \in 1..MaxApprovals :
        (/\ i # j
         /\ approvals[i].pc = "done" /\ approvals[j].pc = "done"
         /\ approvals[i].execution_id = approvals[j].execution_id)
        => /\ ~(approvals[i].executor_calls > 0 /\ approvals[j].executor_calls > 0)
           /\ ~(approvals[i].outcome = 200 /\ approvals[j].outcome = 200)

C4_OverlappingSweeps ==
    \A id \in DOMAIN ledger :
        /\ \A i, j \in 1..MaxSweeps :
              i # j => ~(id \in sweeps[i].detached /\ id \in sweeps[j].detached)
        /\ (/\ \A j \in 1..MaxSweeps : sweeps[j].pc = "done"
            /\ \E j \in 1..MaxSweeps : id \in sweeps[j].detached)
           => ledger[id].status = "rolled_back"

(* C5: when the entry points run one after another, the status of a ledger *)
(* record changes only planned->executed, planned->failed,                 *)
(* executed->rolled_back or executed->failed; so rolled_back and failed    *)
(* never change and planned never becomes rolled_back.                     *)
C5_StatusTransitions ==
    [][\A id \in DOMAIN ledger :
          \/ ledger'[id].status = ledger[id].status
          \/ <<ledger[id].status, ledger'[id].status>> \in
                {<<"planned", "executed">>, <<"planned", "failed">>,
                 <<"executed", "rolled_back">>, <<"executed", "failed">>}]_vars

\* One record went executed->rolled_back, another planned->failed.
C5_Witness ==
    \E id1, id2 \in DOMAIN ledger :
        /\ ledger[id1].status = "rolled_back"
        /\ ledger[id2].status = "failed"
        /\ ledger[id2].executed_by = "user:alice"

(* C6: rollback_execution on an execution whose status is not executed    *)
(* returns false, detaches and deletes nothing, and leaves the execution   *)
(* as it was; so however often one execution is rolled back, the detach is *)
(* performed at most once.                                                 *)
C6_RollbackNotExecuted ==
    /\ [][(call'.calls = call.calls + 1 /\ call.execution.status # "executed")
          => /\ ~call'.result
             /\ call'.detaches = call.detaches
             /\ call'.execution = call.execution
             /\ attached' = attached
             /\ iamPolicies' = iamPolicies]_vars
    /\ [](call.detaches <= 1)

\* The second rollback of an execution whose first rollback detached the policy.
C6_Witness ==
    /\ call.calls = 2 /\ call.detaches = 1 /\ ~call.result
    /\ call.execution.status = "rolled_back"
    /\ ~call.dry_run

(* C7: a step that detaches a deny policy from one principal while another *)
(* principal has it leaves it attached to the other and does not delete    *)
(* it; a policy is deleted only by a step after which no principal has it. *)
C7_ReferenceCounting ==
    [][\A p \in iamPolicies :
          /\ p \notin iamPolicies' => \A k \in PrincipalKeys : p \notin attached'[k]
          /\ \A k1, k2 \in PrincipalKeys :
                (/\ k1 # k2
                 /\ p \in attached[k1] /\ p \notin attached'[k1]
                 /\ p \in attached[k2])
                => p \in attached'[k2] /\ p \in iamPolicies']_vars

\* Of two executions that attached one policy to two principals, one is rolled
\* back: the policy exists and the other principal has it.
C7_Witness ==
    \E id1, id2 \in DOMAIN ledger :
        LET p == ledger[id2].diff.policy_arn
        IN  /\ ledger[id1].status = "rolled_back"
            /\ ledger[id2].status = "executed"
            /\ ledger[id1].diff.policy_arn = p
            /\ ledger[id1].target # ledger[id2].target
            /\ p \in iamPolicies
            /\ p \in attached[<<ledger[id2].diff.principal_type,
                                ledger[id2].diff.principal_name>>]
            /\ p \notin attached[<<ledger[id1].diff.principal_type,
                                   ledger[id1].diff.principal_name>>]

(* C8: after a valid approval of a planned execution of a manual policy    *)
(* with ttl_minutes > 0 whose attachment succeeded, the stored record has  *)
(* status executed, the before and after lists, and a ttl_expires_at.      *)
C8_ApprovedRecordHasTtl ==
    LET a == approvals[1]
    IN  (/\ a.pc = "done" /\ a.outcome = 200
         /\ a.execution.action = "attach_deny_policy"
         /\ a.execution.status = "executed"
         /\ \E k \in DOMAIN Policies :
               /\ Policies[k].policy_id = a.execution.policy_id
               /\ Policies[k].mode = "manual"
               /\ Policies[k].ttl_minutes > 0)
        => /\ ledger[a.execution_id].status = "executed"
           /\ ledger[a.execution_id].diff.has_before
           /\ ledger[a.execution_id].diff.has_after
           /\ "ttl_expires_at" \in DOMAIN ledger[a.execution_id]

(* C9: when the attachment fails in the deferred execution of a valid      *)
(* approval, the record is stored as failed and the response is the        *)
(* server error.                                                           *)
C9_AttachFailureIsServerError ==
    LET a == approvals[1]
    IN  (a.pc = "done" /\ a.executor_calls > 0 /\ a.execution.status = "failed")
        => ledger[a.execution_id].status = "failed" /\ a.outcome = 500

(* C10: handle_approval answers forbidden when the signature is invalid,   *)
(* else expired when the timestamp does not parse or is stale, else        *)
(* not-found when the ledger has no such execution, else conflict when the *)
(* status read is not planned; with each of these answers the executor was *)
(* not called and the ledger not written, and with the first two the       *)
(* ledger was not read.                                                    *)
C10_GateOrder ==
    LET a == approvals[1]
        stale == \/ a.timestamp = BadTimestamp
                 \/ /\ a.timestamp >= 0
                    /\ now - a.timestamp > approval_timeout_hours * MinutesPerHour
    IN  a.pc = "done" =>
        /\ IF a.signature # <<Secret, a.execution_id, a.timestamp>>
           THEN a.outcome = 403 /\ a.reads = 0
           ELSE IF stale
           THEN a.outcome = 410 /\ a.reads = 0
           ELSE IF a.execution_id \notin DOMAIN ledger
           THEN a.outcome = 404
           ELSE IF a.read_status # "planned"
           THEN a.outcome = 409
           ELSE a.outcome \in {200, 500}
        /\ a.outcome \in {403, 410, 404, 409}
           => a.executor_calls = 0 /\ a.writes = 0

C13_EveryCandidateOnce ==
    LET w == sweeps[1]
    IN  w.pc = "done" =>
        /\ w.visited = [k \in DOMAIN w.candidates |->
                           w.candidates[k].execution_id]
        /\ \A k, l \in DOMAIN w.visited : k # l => w.visited[k] # w.visited[l]
        /\ w.total_found = Len(w.candidates)
        /\ w.rolled_back + w.failed + w.skipped = w.total_found
        /\ w.writes = w.rolled_back + w.failed

\* Two candidates, the rollback of the first failed, the second rolled back.
C13_Witness ==
    LET w == sweeps[1]
    IN  /\ w.pc = "done" /\ Len(w.candidates) = 2
        /\ w.candidates[1].status = "failed"
        /\ w.candidates[2].status = "rolled_back"
        /\ w.failed = 1 /\ w.rolled_back = 1 /\ w.total_found = 2

\* The expired executions a sweep found and left out of its working set.
BeyondCap(w) ==
    w.found \ {w.candidates[k].execution_id : k \in DOMAIN w.candidates}

(* C14: a sweep takes up and calls rollback on at most batch_size          *)
(* candidates; no step of the sweep changes the ledger record of an        *)
(* expired execution beyond the cap, which still has status executed and   *)
(* satisfies the expired query when the sweep returns, and the query of a  *)
(* sweep started right after returns it again.                             *)
C14_BatchCap ==
    /\ [](LET w == sweeps[1]
          IN  /\ Len(w.candidates) <= w.batch_size
              /\ Len(w.visited) <= w.batch_size
              /\ Cardinality(w.rollback_calls) <= w.batch_size
              /\ w.pc # "idle" =>
                    \A id \in BeyondCap(w) :
                       /\ ledger[id].status = "executed"
                       /\ id \in QueryExpiredExecutions(ledger, now))
    /\ [][/\ sweeps[1].pc \in {"rollback", "persist", "next"}
             => \A id \in BeyondCap(sweeps[1]) : ledger'[id] = ledger[id]
          /\ (sweeps[1].pc = "done" /\ sweeps'[1].follows
              /\ sweeps'[1].query_fault = "none")
             => BeyondCap(sweeps[1]) \subseteq sweeps'[1].found]_vars

\* A returned sweep of batch_size 1 that found two expired executions.
C14_Witness ==
    LET w == sweeps[1]
    IN  /\ w.pc = "done" /\ w.batch_size = 1 /\ Cardinality(w.found) = 2
        /\ w.capped /\ w.total_found = 1 /\ w.rolled_back = 1
        /\ \E id \in BeyondCap(w) : ledger[id].status = "executed"

(* C15: a sweep whose expired query raised returns total_found,            *)
(* rolled_back, failed and skipped all 0 and an errors list of the one     *)
(* entry of type cleanup_run_failure; it called no rollback, and the step  *)
(* changed neither the ledger nor any attached policy.                     *)
C15_QueryRaises ==
    /\ [](LET w == sweeps[1]
          IN  (w.pc = "done" /\ w.query_fault = "error")
              => /\ w.total_found = 0 /\ w.rolled_back = 0
                 /\ w.failed = 0 /\ w.skipped = 0
                 /\ w.errors = <<"cleanup_run_failure">>
                 /\ w.rollback_calls = {} /\ w.visited = <<>>
                 /\ w.writes = 0)
    /\ [][(sweeps'[1] # sweeps[1] /\ sweeps'[1].query_fault = "error")
          => /\ sweeps'[1].pc = "done"
             /\ ledger' = ledger
             /\ iamPolicies' = iamPolicies
             /\ attached' = attached]_vars

\* The query raised while executions were expired.
C15_Witness ==
    LET w == sweeps[1]
    IN  /\ w.pc = "done" /\ w.query_fault = "error"
        /\ w.errors = <<"cleanup_run_failure">>
        /\ QueryExpiredExecutions(ledger, now) # {}

\* Pair k of the call makes IAM calls, and one of them raises (an IAM
\* fault, or a target that is no IAM ARN).
AttachRaises(k) ==
    LET pair == PlanPairs(call.plan)[k]
    IN  /\ ~call.dry_run
        /\ pair.action.type = "attach_deny_policy"
        /\ (call.faults[k] # "none" \/ ~ParsePrincipalArn(pair.target).ok)

(* C16: execute_action_plan on a plan that passes its precondition does    *)
(* not raise when the attachment for a target raises: it returns that      *)
(* target's execution with status failed and the error in its diff, and    *)
(* an execution with status executed for every other pair, whose deny      *)
(* policy is attached in real mode.                                        *)
C16_FailureIsolatedPerTarget ==
    (call.calls = 1 /\ ~PreconditionViolated(call.plan)) =>
        LET pairs == PlanPairs(call.plan)
        IN  /\ ~call.raised
            /\ Len(call.executions) = Len(pairs)
            /\ \A k \in DOMAIN pairs :
                  LET e == call.executions[k]
                  IN  /\ e.target = pairs[k].target
                      /\ IF AttachRaises(k)
                         THEN e.status = "failed" /\ e.diff.error # ""
                         ELSE /\ e.status = "executed" /\ e.diff.error = ""
                              /\ (~call.dry_run
                                  /\ pairs[k].action.type = "attach_deny_policy")
                                 => e.diff.policy_arn \in
                                       attached[<<e.diff.principal_type,
                                                  e.diff.principal_name>>]

\* Two targets: the attachment for the first raised, the second is attached.
C16_Witness ==
    /\ call.calls = 1 /\ ~call.dry_run /\ ~call.raised
    /\ call.plan.actions = <<AttachAction>>
    /\ call.plan.target_principals = <<RoleA, RoleB>>
    /\ call.faults = <<"attach">>  \o <<"none">>
    /\ call.executions[1].status = "failed"
    /\ call.executions[1].diff.error = "ClientError"
    /\ call.executions[2].status = "executed"
    /\ attached[<<"role", "ci-b">>] # {}

(* C17: execute_action_plan on a plan that is not matched, or has no       *)
(* matched_policy_id, or has no actions, raises; it returns no execution   *)
(* and leaves the policies and their attachments as they were.             *)
C17_PreconditionViolation ==
    (/\ call.calls = 1
     /\ \/ ~call.plan.matched
        \/ call.plan.matched_policy_id = ""
        \/ call.plan.actions = <<>>)
    => /\ call.raised
       /\ call.executions = <<>>
       /\ iamPolicies = {}
       /\ \A key \in PrincipalKeys : attached[key] = {}

\* An unmatched plan that has an action and targets, in real mode.
C17_Witness ==
    /\ call.calls = 1 /\ call.raised /\ ~call.dry_run
    /\ ~call.plan.matched
    /\ call.plan.matched_policy_id # ""
    /\ call.plan.actions = <<AttachAction>>
    /\ call.plan.target_principals = <<RoleA, RoleB>>

(* C18: execute_action_plan on a plan that passes its precondition returns *)
(* |actions| x |target_principals| executions, the one at position         *)
(* (i - 1) x |target_principals| + j carrying the type of action i and     *)
(* target j.                                                               *)
C18_OnePerPairInOrder ==
    (call.calls = 1 /\ ~PreconditionViolated(call.plan)) =>
        LET actions == call.plan.actions
            targets == call.plan.target_principals
        IN  /\ ~call.raised
            /\ Len(call.executions) = Len(actions) * Len(targets)
            /\ \A i \in DOMAIN actions, j \in DOMAIN targets :
                  LET e == call.executions[(i - 1) * Len(targets) + j]
                  IN  e.action = actions[i].type /\ e.target = targets[j]

\* Two different actions over two different targets: four executions.
C18_Witness ==
    /\ call.calls = 1 /\ ~call.raised
    /\ call.plan.actions = <<AttachAction, NotifyAction>>
    /\ call.plan.target_principals = <<RoleB, RoleA>>
    /\ Len(call.executions) = 4
    /\ call.executions[2].action = "attach_deny_policy"
    /\ call.executions[2].target = RoleA
    /\ call.executions[3].action = "notify_only"
    /\ call.executions[3].target = RoleB

\* The loaded policy of that id.
PolicyById(policy_id) ==
    Policies[CHOOSE k \in DOMAIN Policies : Policies[k].policy_id = policy_id]

\* The ttl_minutes of the plan a stored execution was executed under: the
\* matched policy's for an event, 0 for an approval.
PlanTtlMinutes(item) ==
    IF item.executed_by = "system:auto"
    THEN PolicyById(item.policy_id).ttl_minutes
    ELSE ApprovalPlan(ItemToExecution(item), DenyList).ttl_minutes

(* C19: a stored execution of a successful real-mode attach has            *)
(* ttl_expires_at = executed_at + ttl_minutes when the plan's ttl_minutes  *)
(* is positive and has no ttl_expires_at when it is 0; an execution        *)
(* without ttl_expires_at is in no sweep's query answer or working set,    *)
(* and no step gives it status rolled_back.                                *)
C19_TtlExpiry ==
    /\ [](/\ \A id \in DOMAIN ledger :
                LET item == ledger[id]
                IN  item.diff.has_after =>
                       IF PlanTtlMinutes(item) > 0
                       THEN /\ "ttl_expires_at" \in DOMAIN item
                            /\ item.ttl_expires_at =
                                  item.executed_at + PlanTtlMinutes(item)
                       ELSE "ttl_expires_at" \notin DOMAIN item
          /\ \A id \in sweeps[1].found : "ttl_expires_at" \in DOMAIN ledger[id]
          /\ \A k \in DOMAIN sweeps[1].candidates :
                sweeps[1].candidates[k].ttl_expires_at # NoTime)
    /\ [][\A id \in DOMAIN ledger :
            "ttl_expires_at" \notin DOMAIN ledger[id]
            => /\ ledger'[id].status # "rolled_back"
               /\ ledger[id].diff.has_after
                  => ledger'[id].status = ledger[id].status]_vars

\* After a sweep an hour later: the auto execution is rolled back, the
\* approved one, which has no ttl_expires_at, is still executed.
C19_Witness ==
    /\ sweeps[1].pc = "done" /\ sweeps[1].rolled_back = 1
    /\ now >= MinutesPerHour
    /\ \E id \in DOMAIN ledger :
          /\ ledger[id].status = "rolled_back"
          /\ ledger[id].ttl_expires_at = ledger[id].executed_at + MinutesPerHour
    /\ \E id \in DOMAIN ledger :
          /\ ledger[id].status = "executed" /\ ledger[id].diff.has_after
          /\ "ttl_expires_at" \notin DOMAIN ledger[id]
          /\ ledger[id].executed_at + MinutesPerHour <= now

C21_DryRunChangesNothing ==
    [][(/\ call'.calls = call.calls + 1
        /\ call'.matched
        /\ \/ call'.global_dry_run
           \/ PolicyById(Evaluate(CostEvent(call'.amount), Policies,
                                  WallClock(now)).matched_policy_id).mode
                 = "dry_run")
       => /\ ledger' = ledger
          /\ attached' = attached
          /\ iamPolicies' = iamPolicies]_vars

\* DRY_RUN forced on an event of the auto policy, after an event that attached.
C21_Witness ==
    /\ call.calls = 2 /\ call.global_dry_run /\ call.amount = 55
    /\ call.matched /\ call.mode = "dry_run"
    /\ Cardinality(DOMAIN ledger) = 1
    /\ attached[<<"role", "ci-a">>] # {}

\* The indices of the enabled policies of the list that match the event at
\* the k-th call.
MatchingEnabled(k) ==
    {i \in DOMAIN call.policies :
        /\ call.policies[i].enabled
        /\ MatchEvent(call.event, call.policies[i], call.walls[k])}

(* C22: evaluate returns a matched plan with the matched_policy_id of the  *)
(* first policy in list order that is enabled and matches the event, also  *)
(* when a later policy matches too; it returns an unmatched plan exactly   *)
(* when no enabled policy matches.                                         *)
C22_FirstMatchWins ==
    \A k \in DOMAIN call.plans :
        IF MatchingEnabled(k) = {}
        THEN ~call.plans[k].matched
        ELSE LET first == CHOOSE i \in MatchingEnabled(k) :
                             \A j \in MatchingEnabled(k) : i <= j
             IN  /\ call.plans[k].matched
                 /\ call.plans[k].matched_policy_id =
                       call.policies[first].policy_id

\* Two enabled policies that both match, the second with the higher
\* minimum: the plan is the first one's.
C22_Witness ==
    /\ call.calls >= 1 /\ Len(call.policies) = 2
    /\ MatchingEnabled(1) = {1, 2}
    /\ call.policies[1].policy_id = "ec2-only"
    /\ call.policies[2].policy_id = "plain"
    /\ call.plans[1].matched_policy_id = "ec2-only"

(* C23: no plan returned by evaluate has the matched_policy_id of a policy *)
(* of the list that is not enabled, even when the event fits that          *)
(* policy's match conditions.                                              *)
C23_DisabledNeverMatched ==
    \A k \in DOMAIN call.plans : \A i \in DOMAIN call.policies :
        ~call.policies[i].enabled
        => call.plans[k].matched_policy_id # call.policies[i].policy_id

\* The only policy of the list is disabled and fits the event: unmatched.
C23_Witness ==
    /\ call.calls >= 1 /\ Len(call.policies) = 1
    /\ ~call.policies[1].enabled
    /\ MatchEvent(call.event, call.policies[1], call.walls[1])
    /\ ~call.plans[1].matched

\* The match conditions of a policy, without its exception rules.
MatchConditions(event, policy) ==
    /\ event.source \in policy.match.source
    /\ event.account_id \in policy.match.account_ids
    /\ policy.match.min_amount_usd <= event.amount
    /\ policy.match.max_amount_usd.given
          => event.amount <= policy.match.max_amount_usd.value
    /\ policy.match.services.given
          => /\ event.details.service # ""
             /\ event.details.service \in policy.match.services.values
    /\ policy.match.regions.given
          => /\ event.details.region # ""
             /\ event.details.region \in policy.match.regions.values

(* C24: an event that satisfies a policy's match conditions and is         *)
(* exempted by its exception rules does not match that policy; the plan    *)
(* evaluate returns is then that of another policy of the list only if     *)
(* that policy is enabled and matches the event by itself, and is          *)
(* unmatched otherwise.                                                    *)
C24_ExemptionExcludesOnly ==
    \A k \in DOMAIN call.plans : \A i \in DOMAIN call.policies :
        (/\ MatchConditions(call.event, call.policies[i])
         /\ IsExempted(call.event, call.policies[i].exceptions, call.walls[k]))
        => /\ ~call.matches[k][i]
           /\ IF \E j \in DOMAIN call.policies :
                    call.policies[j].enabled /\ call.matches[k][j]
              THEN /\ call.plans[k].matched
                   /\ \E j \in DOMAIN call.policies :
                         /\ call.policies[j].enabled /\ call.matches[k][j]
                         /\ ~IsExempted(call.event, call.policies[j].exceptions,
                                        call.walls[k])
                         /\ call.plans[k].matched_policy_id =
                               call.policies[j].policy_id
              ELSE ~call.plans[k].matched

\* The first policy spares production principals and the event names one;
\* the second matches by itself.
C24_Witness ==
    /\ call.calls >= 1 /\ Len(call.policies) = 2
    /\ call.policies[1].policy_id = "spare-production"
    /\ call.event.details.principal_arn = ProdArn
    /\ MatchConditions(call.event, call.policies[1])
    /\ ~call.matches[1][1]
    /\ call.policies[2].policy_id = "plain"
    /\ call.plans[1].matched_policy_id = "plain"

C26_MatchEventConditions ==
    \A k \in DOMAIN call.matches : \A i \in DOMAIN call.policies :
        call.matches[k][i]
        <=> /\ MatchConditions(call.event, call.policies[i])
            /\ ~IsExempted(call.event, call.policies[i].exceptions,
                           call.walls[k])

\* An amount equal to the minimum and to the maximum matches.
C26_Witness ==
    /\ call.calls >= 1 /\ Len(call.policies) = 1
    /\ call.policies[1].policy_id = "capped"
    /\ call.event.amount = call.policies[1].match.max_amount_usd.value
    /\ call.matches[1][1]

(* C27: the signature and timestamp of a link from generate_approval_url   *)
(* pass the signature check of a handler holding the same secret, and the  *)
(* check fails whenever the execution_id, the timestamp or the secret of   *)
(* the request differs from those of the link.                             *)
C27_SignatureBindsLink ==
    call.requests > 0
    => (call.request.verified
        <=> /\ call.request.secret = call.secret
            /\ call.request.execution_id = call.execution_id
            /\ call.request.timestamp = call.timestamp)

\* The candidates a sweep has rolled back so far, by position.
RolledBackSoFar(w) ==
    {k \in 1..w.cur :
        /\ w.candidates[k].status = "rolled_back"
        /\ w.candidates[k].execution_id \in w.rollback_calls}

(* C28: a failure of the notifier changes no outcome and no stored status. *)
(* When the confirmation raises after a deferred execution that succeeded, *)
(* handle_approval answers ok and the record is stored executed; when the  *)
(* rollback confirmation raises in a sweep, the candidate is counted as    *)
(* rolled_back, not as failed, and its record is stored rolled_back.       *)
C28_NotifierFailureHarmless ==
    /\ \A i \in 1..MaxApprovals :
          LET a == approvals[i]
          IN  (a.pc = "done" /\ a.notify_raised)
              => /\ a.outcome = 200
                 /\ ledger[a.execution_id].status = a.execution.status
                 /\ a.execution.status = "executed"
                      => ledger[a.execution_id].status = "executed"
    /\ \A j \in 1..MaxSweeps :
          LET w == sweeps[j]
          IN  w.pc \in {"next", "done"}
              => /\ w.rolled_back = Cardinality(RolledBackSoFar(w))
                 /\ w.failed = Cardinality({k \in 1..w.cur :
                                    w.candidates[k].status = "failed"})
                 /\ \A id \in w.notify_raised :
                       /\ ledger[id].status = "rolled_back"
                       /\ \E k \in RolledBackSoFar(w) :
                             w.candidates[k].execution_id = id

\* A returned sweep that rolled back two candidates; the confirmation of
\* one of them raised.
C28_Witness ==
    \E j \in 1..MaxSweeps :
        /\ sweeps[j].pc = "done"
        /\ sweeps[j].rolled_back = 2 /\ sweeps[j].failed = 0
        /\ Cardinality(sweeps[j].notify_raised) = 1
        /\ \A id \in sweeps[j].notify_raised :
              ledger[id].status = "rolled_back"

\* An approval answered ok whose confirmation raised; the record is executed.
C28_WitnessApproval ==
    \E i \in 1..MaxApprovals :
        /\ approvals[i].pc = "done"
        /\ approvals[i].notify_raised
        /\ approvals[i].outcome = 200
        /\ ledger[approvals[i].execution_id].status = "executed"
        /\ ledger[approvals[i].execution_id].executed_by = "user:" \o approvals[i].user

\* A ledger record a sweep at current_time has no business with.
NotDue(item, current_time) ==
    \/ "ttl_expires_at" \notin DOMAIN item
    \/ item.ttl_expires_at > current_time
    \/ item.status # "executed"

(* C29: no step of a TTL sweep calls rollback on, or changes the ledger    *)
(* record of, an execution whose ttl_expires_at is absent or later than    *)
(* the sweep's current time or whose status is not executed; a candidate   *)
(* handed to the sweep with a status other than executed is counted as     *)
(* skipped, with no rollback call, no change in IAM and no ledger write.   *)
C29_SweepTouchesOnlyDue ==
    [][\A j \in 1..MaxSweeps :
          LET w == sweeps[j]
          IN  w.pc \in {"rollback", "persist", "next"}
              => /\ \A id \in DOMAIN ledger :
                       NotDue(ledger[id], now)
                       => /\ ledger'[id] = ledger[id]
                          /\ id \in sweeps'[j].rollback_calls
                               => id \in w.rollback_calls
                 /\ (w.pc = "rollback"
                     /\ w.candidates[w.cur].status # "executed")
                    => /\ sweeps'[j].skipped = w.skipped + 1
                       /\ sweeps'[j].rolled_back = w.rolled_back
                       /\ sweeps'[j].failed = w.failed
                       /\ sweeps'[j].rollback_calls = w.rollback_calls
                       /\ sweeps'[j].writes = w.writes
                       /\ sweeps'[j].pc = "next"
                       /\ UNCHANGED <<ledger, iamPolicies, attached>>]_vars

\* A returned sweep that was handed a record that is not executed and has
\* no ttl_expires_at, which it skipped, and one that was due, which it
\* rolled back with its one ledger write.
C29_Witness ==
    \E j \in 1..MaxSweeps :
        LET w == sweeps[j]
        IN  /\ w.pc = "done" /\ w.total_found = 2
            /\ w.skipped = 1 /\ w.rolled_back = 1 /\ w.writes = 1
            /\ \E k \in DOMAIN w.candidates :
                  LET id == w.candidates[k].execution_id
                  IN  /\ id \notin w.rollback_calls
                      /\ ledger[id].status = "planned"
                      /\ "ttl_expires_at" \notin DOMAIN ledger[id]

\* The record carries the annotation of a rollback that failed.
HasRollbackError(item) ==
    /\ "diff" \in DOMAIN item
    /\ item.diff.rollback_error # ""

C32_SimulateAttachesNothing ==
    (call.calls = 1 /\ call.dry_run /\ ~PreconditionViolated(call.plan)) =>
        LET pairs == PlanPairs(call.plan)
        IN  /\ iamPolicies = {}
            /\ \A key \in PrincipalKeys : attached[key] = {}
            /\ \A k \in DOMAIN pairs :
                  pairs[k].action.type = "attach_deny_policy"
                  => LET e == call.executions[k]
                     IN  /\ e.status = "executed"
                         /\ e.diff.dry_run
                         /\ e.diff.would_deny = pairs[k].action.deny
                         /\ e.diff.policy_arn = NoPolicy
                         /\ e.ttl_expires_at = NoTime

\* A simulated attach over two targets of a plan with a TTL of an hour.
C32_Witness ==
    /\ call.calls = 1 /\ call.dry_run /\ ~call.raised
    /\ call.plan.actions = <<AttachAction>>
    /\ call.plan.ttl_minutes = MinutesPerHour
    /\ call.plan.target_principals = <<RoleA, RoleB>>
    /\ Len(call.executions) = 2
    /\ call.executions[2].diff.would_deny = DenyList
    /\ call.executions[2].ttl_expires_at = NoTime

\* The diff of an attach_deny_policy record lacks a field the rollback needs.
LacksRollbackFields(diff) ==
    \/ diff.policy_arn = NoPolicy
    \/ diff.principal_type = ""
    \/ diff.principal_name = ""

\* The action type is none that rollback_execution knows.
UnsupportedAction(execution) ==
    execution.action \notin {"attach_deny_policy", "notify_only"}

(* C33 as stated: rollback_execution on an executed record with an         *)
(* unsupported action type, or on an attach_deny_policy record whose diff  *)
(* lacks policy_arn, principal_type or principal_name, returns false,      *)
(* makes no detach or delete call and does not mark the record             *)
(* rolled_back.                                                            *)
C33_MalformedRollbackFails ==
    [][(/\ call'.calls = call.calls + 1
        /\ call.execution.status = "executed"
        /\ \/ UnsupportedAction(call.execution)
           \/ /\ call.execution.action = "attach_deny_policy"
              /\ LacksRollbackFields(call.execution.diff))
       => /\ ~call'.result
          /\ call'.detaches = call.detaches
          /\ attached' = attached /\ iamPolicies' = iamPolicies
          /\ call'.execution.status # "rolled_back"]_vars

(* C33 amended: with the executor in real mode, rollback_execution on an   *)
(* executed record with an unsupported action type, or on an               *)
(* attach_deny_policy record whose diff is not marked dry_run and lacks    *)
(* policy_arn, principal_type or principal_name, returns false, makes no   *)
(* detach or delete call and leaves the record as it was.                  *)
C33_MalformedRealRollbackFails ==
    [][(/\ call'.calls = call.calls + 1
        /\ ~call.dry_run
        /\ call.execution.status = "executed"
        /\ \/ UnsupportedAction(call.execution)
           \/ /\ call.execution.action = "attach_deny_policy"
              /\ ~call.execution.diff.dry_run
              /\ LacksRollbackFields(call.execution.diff))
       => /\ ~call'.result
          /\ call'.detaches = call.detaches
          /\ attached' = attached /\ iamPolicies' = iamPolicies
          /\ call'.execution = call.execution]_vars

\* A real-mode rollback of an executed attach whose diff names the policy
\* and not the principal, the policy being attached: it returned false and
\* the policy is still attached.
C33_Witness ==
    /\ call.calls = 1 /\ ~call.dry_run /\ ~call.result
    /\ call.execution.status = "executed"
    /\ call.execution.action = "attach_deny_policy"
    /\ call.execution.diff.policy_arn = SharedPolicy
    /\ call.execution.diff.principal_name = ""
    /\ SharedPolicy \in attached[<<"role", "ci-a">>]

\* One list is a rearrangement of the other.
IsPermutation(s, t) ==
    /\ Len(s) = Len(t)
    /\ \A x \in {s[n] : n \in DOMAIN s} \cup {t[n] : n \in DOMAIN t} :
          Cardinality({n \in DOMAIN s : s[n] = x})
              = Cardinality({n \in DOMAIN t : t[n] = x})

(* C34: the managed policy made by a real-mode attach is keyed by the      *)
(* policy_id and the sorted deny list: attaches whose deny lists are       *)
(* permutations of each other, under one policy_id, use one and the same   *)
(* policy, so IAM never holds two policies for such lists and a repeated   *)
(* attach to the same principal does not add a second attachment.          *)
C34_PolicyKeyIgnoresOrder ==
    (call.calls = 1 /\ ~call.dry_run /\ ~call.raised) =>
        LET pairs == PlanPairs(call.plan)
            Done(k) == /\ pairs[k].action.type = "attach_deny_policy"
                       /\ call.executions[k].status = "executed"
        IN  /\ \A k1, k2 \in DOMAIN pairs :
                  (/\ Done(k1) /\ Done(k2)
                   /\ IsPermutation(pairs[k1].action.deny, pairs[k2].action.deny))
                  => call.executions[k1].diff.policy_arn
                         = call.executions[k2].diff.policy_arn
            /\ \A p, q \in iamPolicies :
                  (p[1] = q[1] /\ IsPermutation(p[2], q[2])) => p = q

(***************************************************************************)
(* Deferred execution of planned records as a store hands them over: the   *)
(* ledger holds one planned record whose diff carries would_deny, a        *)
(* policy_document (the Action lists of its statements), both or neither.  *)
(***************************************************************************)
DeferredDiffs ==
    {EmptyDiff,
     [EmptyDiff EXCEPT !.dry_run = TRUE, !.would_deny = DenyList],
     [EmptyDiff EXCEPT !.policy_document = <<DenyPair>>],
     [EmptyDiff EXCEPT !.would_deny = DenyList, !.policy_document = <<DenyPair>>],
     [EmptyDiff EXCEPT !.policy_document = <<DenyPair, DenyList>>],
     [EmptyDiff EXCEPT !.policy_document = << <<>>, DenyList >>]}

DeferredRecords ==
    {[NewExecution(1, "manual-pair", 45, "system:auto", action, RoleA)
         EXCEPT !.diff = diff] :
        action \in {AttachAction, NotifyAction}, diff \in DeferredDiffs}

InitDeferred ==
    /\ call = NoCall
    /\ \E execution \in DeferredRecords : ledger = PutItem(<<>>, execution)
    /\ iamPolicies = {}
    /\ attached = [k \in PrincipalKeys |-> {}]
    /\ now = 0
    /\ approvals = [i \in 1..MaxApprovals |-> IdleApproval]
    /\ sweeps = [j \in 1..MaxSweeps |-> IdleSweep]
    /\ approved = {}

NextDeferred ==
    \/ Tick(TRUE)
    \/ \E i \in 1..MaxApprovals, id \in DOMAIN ledger :
         ApprovalReceive(i, id, GenerateSignature(Secret, id, now), now, TRUE)
    \/ \E i \in 1..MaxApprovals : ApprovalCheckStatus(i)
    \/ \E i \in 1..MaxApprovals, fault \in Faults : ApprovalExecute(i, fault)
    \/ \E i \in 1..MaxApprovals, notifyFails \in BOOLEAN :
         ApprovalUpdate(i, notifyFails)

SpecDeferred == InitDeferred /\ [][NextDeferred]_vars

(* C35: deferred execution takes the deny list from diff.would_deny when   *)
(* that is present and not empty, otherwise from the first statement of    *)
(* diff.policy_document; an attach_deny_policy record for which neither    *)
(* gives actions is answered 500 with no executor call, no IAM change and  *)
(* the ledger record unchanged, still planned.  Otherwise the executor is  *)
(* called once, and a successful attach uses the policy of that list.      *)
C35_DeferredDenyList ==
    [][\A i \in 1..MaxApprovals :
         (approvals[i].pc = "checked" /\ approvals'[i].pc # "checked") =>
            LET e == approvals[i].execution
                e2 == approvals'[i].execution
                listed == e.diff.would_deny # <<>>
                first == IF e.diff.policy_document = <<>> THEN <<>>
                         ELSE e.diff.policy_document[1]
                deny == IF listed THEN e.diff.would_deny ELSE first
            IN  IF deny = <<>> /\ e.action = "attach_deny_policy"
                THEN /\ approvals'[i].pc = "done"
                     /\ approvals'[i].outcome = 500
                     /\ approvals'[i].executor_calls = 0
                     /\ approvals'[i].writes = 0
                     /\ ledger' = ledger
                     /\ ledger[e.execution_id].status = "planned"
                     /\ iamPolicies' = iamPolicies /\ attached' = attached
                ELSE /\ approvals'[i].pc = "update"
                     /\ approvals'[i].executor_calls = 1
                     /\ (e.action = "attach_deny_policy" /\ e2.status = "executed")
                        => /\ e2.diff.policy_arn = PolicyName(e.policy_id, deny)
                           /\ PolicyName(e.policy_id, deny) \in iamPolicies'
                           /\ attached'[<<"role", "ci-a">>]
                                  = {PolicyName(e.policy_id, deny)}]_vars

\* An approval of an attach record whose policy_document has an empty first
\* statement and no would_deny was answered 500 without an executor call.
C35_Witness ==
    \E i \in 1..MaxApprovals :
        /\ approvals[i].pc = "done" /\ approvals[i].outcome = 500
        /\ approvals[i].executor_calls = 0
        /\ approvals[i].execution.action = "attach_deny_policy"
        /\ approvals[i].execution.diff.policy_document = << <<>>, DenyList >>
        /\ ledger[1].status = "planned"
        /\ iamPolicies = {}

\* An approval of a record that carries only a policy_document attached the
\* policy of its first statement.
C35_WitnessFallback ==
    \E i \in 1..MaxApprovals :
        /\ approvals[i].pc = "done" /\ approvals[i].outcome = 200
        /\ ledger[1].status = "executed"
        /\ ledger[1].diff.policy_arn = PolicyName("manual-pair", DenyPair)

(***************************************************************************)
(* cleanup_expired_executions as a function of what _rollback_execution    *)
(* answers for each candidate of the batch, the answer being one of its    *)
(* three results or an exception that reaches the loop: the counters, the  *)
(* errors list and the failure alert.                                      *)
(***************************************************************************)
MaxCandidates == 7
SummaryLimit == 5

CandidateResults == {"rolled_back", "skipped", "failed", "raised"}

\* ttl_cleanup.py:102-121: the counters and the errors list after the first
\* n candidates.
RECURSIVE CleanupLoop(_, _)
CleanupLoop(results, n) ==
    IF n = 0
    THEN [rolled_back |-> 0, failed |-> 0, skipped |-> 0, errors |-> <<>>]
    ELSE LET c == CleanupLoop(results, n - 1)
         IN  CASE results[n] = "rolled_back" -> [c EXCEPT !.rolled_back = @ + 1]
               [] results[n] = "skipped" -> [c EXCEPT !.skipped = @ + 1]
               [] results[n] = "failed" -> [c EXCEPT !.failed = @ + 1]
               [] OTHER ->
                    [c EXCEPT !.failed = @ + 1,
                              !.errors = Append(@, [execution_id |-> n,
                                                    error |-> "raised",
                                                    type |-> "unexpected_error"])]

\* A summary that lists every error.
FailureSummaryUnlimited(failed_count, errors) ==
    [failed_rollbacks |-> failed_count,
     lines |-> [k \in 1..Len(errors) |->
                  <<errors[k].execution_id, errors[k].error>>],
     more |-> 0]

\* ttl_cleanup.py:224-240: the message of the alert: the count, a line for
\* each of the first five errors, and the number of errors left out.
FailureSummary(failed_count, errors) ==
    [failed_rollbacks |-> failed_count,
     lines |-> [k \in 1..Min(SummaryLimit, Len(errors)) |->
                  <<errors[k].execution_id, errors[k].error>>],
     more |-> IF Len(errors) > SummaryLimit THEN Len(errors) - SummaryLimit
              ELSE 0]

NoCleanupCall ==
    [results |-> <<>>, calls |-> 0, total_found |-> 0, rolled_back |-> 0,
     failed |-> 0, skipped |-> 0, errors |-> <<>>, alerts |-> <<>>,
     notify_raised |-> FALSE]

InitCleanup ==
    /\ ledger = <<>>
    /\ now = 0
    /\ approvals = [i \in 1..MaxApprovals |-> IdleApproval]
    /\ sweeps = [j \in 1..MaxSweeps |-> IdleSweep]
    /\ approved = {}
    /\ attached = [k \in PrincipalKeys |-> {}]
    /\ iamPolicies = {}
    /\ \E n \in 0..MaxCandidates :
          \E results \in [1..n -> CandidateResults] :
             call = [NoCleanupCall EXCEPT !.results = results]

\* ttl_cleanup.py:96-140 and 217-264: the loop, then one alert if a candidate
\* failed; the notifier may raise, which is logged.
CleanupCall(notifyFails) ==
    LET c == CleanupLoop(call.results, Len(call.results))
    IN  /\ call.calls = 0
        /\ notifyFails => c.failed > 0
        /\ call' = [call EXCEPT
                       !.calls = 1,
                       !.total_found = Len(call.results),
                       !.rolled_back = c.rolled_back,
                       !.failed = c.failed,
                       !.skipped = c.skipped,
                       !.errors = c.errors,
                       !.alerts = IF c.failed > 0
                                  THEN <<FailureSummary(c.failed, c.errors)>>
                                  ELSE <<>>,
                       !.notify_raised = notifyFails]
        /\ UNCHANGED <<ledger, now, approvals, sweeps, approved, attached,
                       iamPolicies>>

NextCleanup == \E notifyFails \in BOOLEAN : CleanupCall(notifyFails)

SpecCleanup == InitCleanup /\ [][NextCleanup]_vars

\* The candidates that did not end rolled back or skipped, among results.
FailedCandidates(results) ==
    {n \in DOMAIN results : results[n] \in {"failed", "raised"}}

RaisedCandidates(results) == {n \in DOMAIN results : results[n] = "raised"}

(* C36: a sweep sends one failure alert if at least one candidate failed   *)
(* and none otherwise, whatever the number of failures; the alert names    *)
(* the failed count, lists the first five entries of the errors list at    *)
(* most, in order, and gives the number of entries left out.               *)
C36_OneFailureAlert ==
    call.calls = 1 =>
        LET failures == Cardinality(FailedCandidates(call.results))
            raised == Cardinality(RaisedCandidates(call.results))
        IN  /\ call.failed = failures
            /\ Len(call.errors) = raised
            /\ Len(call.alerts) = IF failures > 0 THEN 1 ELSE 0
            /\ \A a \in DOMAIN call.alerts :
                  LET alert == call.alerts[a]
                  IN  /\ alert.failed_rollbacks = failures
                      /\ Len(alert.lines) <= 5
                      /\ Len(alert.lines) = Min(5, raised)
                      /\ \A k \in DOMAIN alert.lines :
                            alert.lines[k] = <<call.errors[k].execution_id,
                                               call.errors[k].error>>
                      /\ alert.more = raised - Len(alert.lines)

\* A sweep of seven candidates that all raised: one alert of five lines and
\* two left out.
C36_Witness ==
    /\ call.calls = 1 /\ call.failed = 7 /\ Len(call.errors) = 7
    /\ Len(call.alerts) = 1
    /\ Len(call.alerts[1].lines) = 5 /\ call.alerts[1].more = 2

\* The ledger item records a policy that a real-mode attach put on its
\* principal.
RecordsAttachment(item) ==
    /\ item.status = "executed"
    /\ item.action = "attach_deny_policy"
    /\ ~item.diff.dry_run
    /\ item.diff.policy_arn # NoPolicy

(* C37: whenever no handler is under way, every ledger record with status  *)
(* executed that records a policy attached in real mode still has that     *)
(* policy attached to its principal: no rollback of one execution removes  *)
(* the policy another executed record of the same principal relies on.     *)
C37_ExecutedStaysAttached ==
    ~Busy =>
        \A id \in DOMAIN ledger :
            RecordsAttachment(ledger[id]) =>
                ledger[id].diff.policy_arn
                    \in attached[<<ledger[id].diff.principal_type,
                                   ledger[id].diff.principal_name>>]

(***************************************************************************)
(* Sweeps over a store whose write may fail: put_item raises ClientError,  *)
(* update_execution logs it and returns False (audit_store.py:84-104),     *)
(* and _rollback_execution goes on without looking at the answer           *)
(* (ttl_cleanup.py:178, 198, 209).                                         *)
(***************************************************************************)
SweepPersistLost(j) ==
    LET w == sweeps[j]
    IN  /\ w.pc = "persist"
        /\ sweeps' = [sweeps EXCEPT ![j] =
                         [w EXCEPT !.pc = "next",
                                   !.rolled_back = IF w.success THEN @ + 1 ELSE @,
                                   !.failed = IF w.success THEN @ ELSE @ + 1]]
        /\ UNCHANGED <<ledger, iamPolicies, attached, now, approvals, approved,
                       call>>

\* ttl_cleanup.py:178 and 200-213: put_item raises something other than a
\* ClientError, which update_execution lets through; the except branch of
\* _rollback_execution marks the execution object failed as it stands and
\* writes it again, and a failure of that write is logged.
SweepPersistRaises(j, retryFails) ==
    LET w == sweeps[j]
        execution == MarkFailed(w.candidates[w.cur], "update_execution raised")
    IN  /\ w.pc = "persist"
        /\ ledger' = IF retryFails THEN ledger ELSE PutItem(ledger, execution)
        /\ sweeps' = [sweeps EXCEPT ![j] =
                         [w EXCEPT !.pc = "next", !.failed = @ + 1,
                                   !.writes = IF retryFails THEN @ ELSE @ + 1,
                                   !.candidates[w.cur] = execution]]
        /\ UNCHANGED <<iamPolicies, attached, now, approvals, approved, call>>

NextStore ==
    \/ \E amount \in Amounts :
         \E faults \in EventFaults(amount, FALSE) :
            /\ \A k \in DOMAIN faults : faults[k] = "none"
            /\ HandleEvent(amount, FALSE, faults, TRUE)
    \/ Tick(TRUE)
    \/ \E j \in 1..MaxSweeps :
         \E order \in ScanPrefixes(QueryExpiredAnswer(ledger, now, "none").found, MaxBatch) :
            SweepQuery(j, MaxBatch, "none", order, TRUE)
    \/ \E j \in 1..MaxSweeps, detachFails, deleteFails \in BOOLEAN :
         SweepRollback(j, detachFails, deleteFails)
    \/ \E j \in 1..MaxSweeps : SweepPersist(j, FALSE)
    \/ \E j \in 1..MaxSweeps : SweepPersistLost(j)
    \/ \E j \in 1..MaxSweeps, retryFails \in BOOLEAN :
         SweepPersistRaises(j, retryFails)
    \/ \E j \in 1..MaxSweeps : SweepNext(j)

SpecStore == Init /\ [][NextStore]_vars

(* C38: a sweep counts a candidate as rolled_back only when the ledger     *)
(* record of that execution has been written with status rolled_back: at   *)
(* the step that raises the rolled_back count, the ledger holds the        *)
(* candidate's record with status rolled_back, so that the query of a      *)
(* later sweep no longer finds it.                                         *)
C38_CountedOnlyIfPersisted ==
    [][\A j \in 1..MaxSweeps :
         LET w == sweeps[j]
             id == w.candidates[w.cur].execution_id
         IN  (/\ w.pc = "persist"
              /\ sweeps'[j].rolled_back = w.rolled_back + 1)
             => /\ ledger'[id].status = "rolled_back"
                /\ id \notin QueryExpiredExecutions(ledger', now)]_vars

\* The principal an execution is aimed at, as IAM knows it.
TargetKey(execution) ==
    <<ParsePrincipalArn(execution.target).type,
      ParsePrincipalArn(execution.target).name>>

\* The other records the manual plan of this execution created.
Siblings(store, execution) ==
    {id \in DOMAIN store :
        /\ id # execution.execution_id
        /\ store[id].event_id = execution.event_id
        /\ store[id].policy_id = execution.policy_id}

(* C39: an approval that is answered ok changes IAM only for the target    *)
(* principal of its execution X, where it attaches the deny policy, and    *)
(* writes only the ledger record X: the records the same manual plan       *)
(* created for other targets stay as they were, planned if they were       *)
(* planned, and the policies attached to their targets do not change.      *)
C39_ApprovalTouchesOnlyItsTarget ==
    [][\A i \in 1..MaxApprovals :
         LET a == approvals[i]
             e == a.execution
         IN  /\ (a.pc = "checked" /\ approvals'[i].pc = "update"
                 /\ approvals'[i].execution.status = "executed")
                => /\ ledger' = ledger
                   /\ \A key \in PrincipalKeys \ {TargetKey(e)} :
                          attached'[key] = attached[key]
                   /\ e.action = "attach_deny_policy"
                      => approvals'[i].execution.diff.policy_arn
                            \in attached'[TargetKey(e)]
             /\ (a.pc = "update" /\ approvals'[i].pc = "done"
                 /\ approvals'[i].outcome = 200)
                => /\ attached' = attached /\ iamPolicies' = iamPolicies
                   /\ DOMAIN ledger' = DOMAIN ledger
                   /\ \A id \in DOMAIN ledger \ {a.execution_id} :
                          ledger'[id] = ledger[id]
                   /\ \A id \in Siblings(ledger, e) :
                          ledger[id].status = "planned"
                          => ledger'[id].status = "planned"]_vars

\* The approval of the second execution of a manual plan for two roles was
\* answered ok: the first is still planned and its role has no policy.
C39_Witness ==
    \E i \in 1..MaxApprovals :
        /\ approvals[i].pc = "done" /\ approvals[i].outcome = 200
        /\ approvals[i].execution_id = 2
        /\ ledger[2].policy_id = "manual-pair" /\ ledger[2].status = "executed"
        /\ ledger[2].target = RoleB
        /\ ledger[1].policy_id = "manual-pair" /\ ledger[1].status = "planned"
        /\ ledger[1].target = RoleA
        /\ attached[<<"role", "ci-a">>] = {}
        /\ attached[<<"role", "ci-b">>] = {ledger[2].diff.policy_arn}

(* C40: in every ledger record, rolled_back_at is set if and only if the   *)
(* status is rolled_back; a record stored as failed, executed or planned   *)
(* carries no rolled_back_at.                                              *)
C40_RolledBackAtIffRolledBack ==
    \A id \in DOMAIN ledger :
        ("rolled_back_at" \in DOMAIN ledger[id])
            <=> (ledger[id].status = "rolled_back")

(***************************************************************************)
(* Repeated sweeps.  The scheduler invokes cleanup_expired_executions      *)
(* again and again, one invocation at a time, with a batch_size of 1 to    *)
(* MaxBatch; a scan may fail, a rollback may fail, the notifier may fail,  *)
(* every ledger write of a sweep succeeds.  Fairness: a sweep whose scan   *)
(* is answered is started again and again, and each step of a sweep that   *)
(* is under way is taken.                                                  *)
(***************************************************************************)
SweepStart(fault) ==
    \E j \in 1..MaxSweeps, batch_size \in 1..MaxBatch :
        \E order \in ScanPrefixes(QueryExpiredAnswer(ledger, now, fault).found, batch_size) :
            SweepQuery(j, batch_size, fault, order, TRUE)

SweepStepRollback ==
    \E j \in 1..MaxSweeps, detachFails, deleteFails \in BOOLEAN :
        SweepRollback(j, detachFails, deleteFails)

SweepStepPersist ==
    \E j \in 1..MaxSweeps, notifyFails \in BOOLEAN : SweepPersist(j, notifyFails)

SweepStepNext == \E j \in 1..MaxSweeps : SweepNext(j)

NextRepeated ==
    \/ \E amount \in {55, 35} :
         \E faults \in EventFaults(amount, FALSE) :
            /\ \A k \in DOMAIN faults : faults[k] = "none"
            /\ HandleEvent(amount, FALSE, faults, TRUE)
    \/ Tick(TRUE)
    \/ \E fault \in QueryFaults : SweepStart(fault)
    \/ SweepStepRollback
    \/ SweepStepPersist
    \/ SweepStepNext

SpecRepeated ==
    /\ Init /\ [][NextRepeated]_vars
    /\ WF_vars(SweepStart("none"))
    /\ WF_vars(SweepStepRollback)
    /\ WF_vars(SweepStepPersist)
    /\ WF_vars(SweepStepNext)

\* The ledger holds execution id with status executed and its ttl run out.
ExpiredExecuted(id) == id \in DOMAIN ledger /\ IsExpired(ledger[id], now)

\* The ledger holds execution id with a status a rollback attempt leaves.
LeftExecuted(id) ==
    id \in DOMAIN ledger /\ ledger[id].status \in {"rolled_back", "failed"}

(* C31: under repeated sweeps every execution that is executed with its    *)
(* ttl_expires_at not later than now eventually has status rolled_back or  *)
(* failed, also when more executions are expired than a sweep's batch_size *)
(* lets it handle.                                                         *)
C31_ExpiredEventuallyLeaves ==
    \A id \in 1..MaxExecs : ExpiredExecuted(id) ~> LeftExecuted(id)

\* A sweep with batch_size 1 follows one that found two expired executions
\* and was capped, and no execution is left executed.
C31_Witness ==
    \E j \in 1..MaxSweeps :
        /\ sweeps[j].pc = "done" /\ sweeps[j].batch_size = 1
        /\ sweeps[j].follows /\ sweeps[j].prev_capped
        /\ sweeps[j].total_found = 1
        /\ Cardinality(DOMAIN ledger) >= 2
        /\ \A id \in DOMAIN ledger : LeftExecuted(id)

=============================================================================
